---------------------------- MODULE Spec2Model ----------------------------
(***************************************************************************)
(* Model of the browser-automation orchestrator.                           *)
(*                                                                         *)
(*  - src/src/background.ts lines 430-744: the tool-calling generation of  *)
(*    the session orchestrator (per-tab session table, tab hand-off,       *)
(*    runAutomation, RUN/STOP handlers);                                   *)
(*  - src/src/background.ts lines 1-428: the JSON-decision generation      *)
(*    (module-level isRunning/currentGoal/actionHistory, runAutomation     *)
(*    with the 1-3 chained actions);                                       *)
(*  - src/src/tool-executor.ts: executeToolCall and its perception cache.  *)
(*                                                                         *)
(* runAutomation is an async function: it gives up control only at an      *)
(* await.  Every value of pc except "dispatch" is such an await; other     *)
(* handlers (STOP, tabs.onCreated) run only while the loop is parked at    *)
(* one of them.  "dispatch" is the synchronous stretch between two awaits  *)
(* in which the for-loop over the tool calls examines the next call.       *)
(***************************************************************************)
EXTENDS Integers, Sequences, FiniteSets, TLC

VARIABLES
    protocol,       \* which generation of background.ts is built: "tool" | "json";
                    \* "executor": executeToolCall called directly, call after call
    tabs,           \* ids of the open browser tabs
    nextTab,        \* id the browser gives to the next created tab
    tabUrl,         \* tab id -> its URL (a sequence of tokens, first the scheme)
    tabStates,      \* tabStates: Map<number, TabState>, as tab id -> object id
    sessions,       \* the TabState objects, indexed by object id
    pc,             \* where runAutomation is parked
    state,          \* runAutomation's `state` reference (object id; 0 before RUN)
    iteration,      \* runAutomation's `iteration`
    retryCount,     \* runAutomation's `retryCount`
    toolState,      \* runAutomation's `toolState` (the perception cache)
    turn,           \* assistantMessage.tool_calls of the current turn (names)
    callIdx,        \* index in turn of the call the for-loop is at
    cur,            \* the executeToolCall in flight: its call and its tabId (NoCur: none)
    executed,       \* indices of the calls of this turn handed to executeToolCall
    statusLog,      \* terminal STATUS_UPDATEs broadcast so far, oldest first
    stops,          \* number of STOP messages received
    staleSince,     \* TRUE from a cache-invalidating action until the next
                    \* capture_screenshot that reports "Screenshot captured"
    isRunning,      \* JSON-decision generation: module-level isRunning
    currentGoal,    \* JSON-decision generation: module-level currentGoal
    actionHistory,  \* JSON-decision generation: module-level actionHistory
    screenshot,     \* JSON-decision generation: runAutomation's `screenshot`
    viewport,       \* JSON-decision generation: runAutomation's `viewport`
    attachedTabs,   \* cdp.ts: attachedTabs, the tabs the debugger was attached to
    ops,            \* cdp.ts: the driver operations (executeAction,
                    \* captureScreenshot) under way, by slot
    response,       \* analyzeScreenshot: the whole text the vision model
                    \* streams, as a sequence of fragments
    received,       \* analyzeScreenshot: how many tokens of it `content` holds
    allBoxes,       \* analyzeScreenshot: allBoxes
    keyCombo,       \* cdpPress: its `key` argument, split at "+"
    isMac,          \* cdpPress: whether navigator.platform names a Mac
    pressPc,        \* cdpPress: where it is parked ("idle": not called)
    keyEvents,      \* cdpPress: the Input.dispatchKeyEvent commands sent
    pageState,      \* JSON-decision generation: screenAnalysis.pageState, from
                    \* the perception step to the reasoning request
    readyPc,        \* waitForPageReady: where it is parked ("idle": not called)
    timeout,        \* waitForPageReady: its `timeout` argument
    elapsed,        \* waitForPageReady: Date.now() - startTime
    polls,          \* waitForPageReady: Runtime.evaluate commands sent
    normX,          \* coordinate conversion: the normalized coordinate
    viewportWidth,  \* coordinate conversion: the viewport dimension
    xMilli,         \* coordinate conversion: the pixel value, in thousandths
    convPc,         \* coordinate conversion: "none", "query", "point", "box"
    chatStore,      \* chat history: the entry of tab 1 in chrome.storage.session
    appendCalls,    \* chat history: the calls of addToChatHistory, by number
    appended,       \* chat history: the messages passed to addToChatHistory
                    \* since the history was last cleared, in call order
    pendingQuestion, \* JSON-decision generation: a question of the last
                    \* decision waits for the next perception step
    visionAnswer,   \* JSON-decision generation: an answer of askQuestion is
                    \* held for the next reasoning request
    loop2           \* where a second runAutomation, started by a RUN for the
                    \* session of a run in progress, is parked: "none",
                    \* "tabsGet", "chat", "done"

jsonVars == << isRunning, currentGoal, actionHistory, screenshot, viewport >>

cdpVars == << attachedTabs, ops >>

visionVars == << response, received, allBoxes >>

pressVars == << keyCombo, isMac, pressPc, keyEvents >>

readyVars == << readyPc, timeout, elapsed, polls >>

\* the variables of the functions modelled on their own
coordVars == << normX, viewportWidth, xMilli, convPc >>

chatVars == << chatStore, appendCalls, appended >>

sideModels == << pressVars, readyVars, coordVars, chatVars, loop2 >>

\* what the actions of the tool-calling generation and of the driver leave
\* alone besides
askVars == << pendingQuestion, visionAnswer >>

sideVars == << sideModels, pageState, askVars >>

vars == << protocol, tabs, nextTab, tabUrl, tabStates, sessions, pc, state,
           iteration, retryCount, toolState, turn, callIdx, cur, executed,
           statusLog, stops, staleSince, isRunning, currentGoal, actionHistory,
           screenshot, viewport, attachedTabs, ops, response, received,
           allBoxes, sideVars >>

---------------------------------------------------------------------------
(* Bounds of the model *)

\* background.ts:439 sets MAX_ITERATIONS = 100; the model runs the same loop
\* with a smaller cap so that the cap is reached.
MAX_ITERATIONS == 4
MaxCalls == 2        \* tool calls in one assistant turn
MaxTabs == 2         \* tabs ever opened
MaxStops == 1        \* STOP messages
MaxHistory == 1      \* actions recorded in the history of one run
MaxFragments == 4    \* fragments a vision response is made of
MaxModifiers == 2    \* keys written before the main key of a combination
MaxChain == 4        \* actions in one decision of SpecChain
MaxTimeout == 4      \* the timeout of waitForPageReady, in units of 100 ms
MaxDelay == 2        \* how long an awaited call takes, in units of 100 ms
MaxDim == 12         \* the small viewport dimensions run from 1 to MaxDim
MaxAppends == 3      \* calls of addToChatHistory
MaxChainTabs == 3    \* tabs of SpecOrigin, where a session is handed on twice

(* Program constants *)
MAX_RETRIES == 3

NULL == "null"       \* null / undefined, for strings
NoTab == 0           \* null, where the value would name a tab
NoArg == << >>       \* an argument the model left out (undefined or "")

---------------------------------------------------------------------------
(* URLs.  A URL is a sequence of tokens whose first token is its scheme    *)
(* prefix; the empty sequence is the empty string.                         *)

startsWith(url, prefix) == Len(url) >= 1 /\ url[1] = prefix

\* the prefix list with about: left out
INTERNAL_URL_PREFIXES_NoAbout == { "chrome://", "chrome-extension://", "devtools://" }

INTERNAL_URL_PREFIXES == { "chrome://", "chrome-extension://", "about:", "devtools://" }

isInternalUrl(url) ==
    url = << >> \/ \E p \in INTERNAL_URL_PREFIXES : startsWith(url, p)

WebUrl      == << "https://", "a" >>
InternalUrl == << "chrome://", "newtab" >>
JsUrl       == << "javascript:", "x" >>
DataUrl     == << "data:", "x" >>

\* the pages a tab can show when executeToolCall is called on it: a web
\* page, the empty URL, and one page of each internal scheme
PageUrls ==
    { WebUrl, InternalUrl, << >>, << "chrome-extension://", "id" >>,
      << "about:", "blank" >>, << "devtools://", "devtools" >> }

---------------------------------------------------------------------------
(* Errors thrown into runAutomation's catch *)

ApiErr(s, m) == [isApi |-> TRUE, status |-> s, message |-> m]
OtherErr(m) == [isApi |-> FALSE, status |-> 0, message |-> m]

\* what a reasoning request can throw: an ApiError (chat-client throws it
\* with the HTTP status) or anything else (a network failure)
ChatErrors == { ApiErr(499, "api499"), ApiErr(500, "api500"), OtherErr("network") }

\* isRetriable with the boundary status 500 left out
isRetriableAbove500(e) == e.status > 500

isRetriable(e) == e.status >= 500

\* the catch taking every error for a retriable one
CatchRetriableAlways(e) == TRUE

CatchRetriable(e) == e.isApi /\ isRetriable(e)

---------------------------------------------------------------------------
(* Tool calls.  A call is its tool name and, for execute_action, the       *)
(* action and its one action-specific argument (NULL when the model left   *)
(* it out).                                                                *)

Call(name, action, arg) == [name |-> name, action |-> action, arg |-> arg]

PerceptionCalls ==
    { Call(n, NULL, NoArg) :
        n \in { "capture_screenshot", "analyze_page", "get_a11y_tree", "find_element" } }

ActionCalls ==
    { Call("execute_action", "click", a) : a \in { << "xy" >>, NoArg } }
    \cup { Call("execute_action", "type", a) : a \in { << "text" >>, NoArg } }
    \cup { Call("execute_action", "press", a) : a \in { << "Enter" >>, << "Escape" >>, << "Tab" >>, NoArg } }
    \cup { Call("execute_action", "scroll", a) : a \in { << "down" >>, NoArg } }
    \cup { Call("execute_action", "wait", NoArg) }
    \cup { Call("execute_action", "navigate", a) : a \in { WebUrl, InternalUrl, JsUrl, DataUrl, NoArg } }
    \cup { Call("execute_action", "hover", NoArg) }

\* the calls that are neither complete nor ask_user
OtherCalls == PerceptionCalls \cup ActionCalls \cup { Call("bogus_tool", NULL, NoArg) }

\* the calls the reasoning model issues in the specifications of the loop,
\* where the loop's control flow is checked: one call of each way through
\* lines 601-645 (awaited or not, recorded in the history or not, updating
\* the tab or refused)
LoopCalls ==
    { Call("capture_screenshot", NULL, NoArg),
      Call("analyze_page", NULL, NoArg),
      Call("execute_action", "navigate", WebUrl),
      Call("execute_action", "navigate", JsUrl),
      Call("execute_action", "navigate", DataUrl) }

\* cur.result is << >> while the call is in flight
NoCur == [call |-> Call("none", NULL, NoArg), tabId |-> NoTab, result |-> << >>]

\* what the model can name in tool_calls, as far as the loop's own control
\* flow tells them apart; an "other" call is drawn from OtherCalls when the
\* for-loop reaches it
CallKinds == { "complete", "ask_user", "other" }

Results == { "r1", "r2" }      \* args.result of complete
Prompts == { "p1" }            \* args.prompt of ask_user

Turns == UNION { [1..n -> CallKinds] : n \in 1..MaxCalls }

---------------------------------------------------------------------------
(* executeToolCall (src/src/tool-executor.ts)                              *)

EmptyToolState ==
    [ currentScreenshot |-> NoTab, viewport |-> NoTab,
      lastAnalysis |-> NULL, lastFoundElement |-> NULL ]

\* the guards of analyze_page (line 74) and find_element (line 126)
NoScreenshotAvailable(c, ts) ==
    \/ c.name = "analyze_page" /\ ts.currentScreenshot = NoTab
    \/ c.name = "find_element" /\ (ts.currentScreenshot = NoTab \/ ts.viewport = NoTab)

\* TRUE when executeToolCall reaches an await before it returns: every tool
\* but ask_user, complete, an unknown tool, and analyze_page/find_element
\* refused for want of a screenshot
Awaits(c, ts) ==
    /\ c.name \in { "capture_screenshot", "analyze_page", "get_a11y_tree",
                    "find_element", "execute_action" }
    /\ ~NoScreenshotAvailable(c, ts)

\* the cache after a click that executeAction completed (lines 180-182)
AfterClick(ts) ==
    [ts EXCEPT !.currentScreenshot = NoTab, !.viewport = NoTab, !.lastFoundElement = NULL]

\* the cache after a press that executeAction completed (lines 216-219)
AfterPress(ts, key) ==
    IF key = << "Enter" >> THEN [ts EXCEPT !.currentScreenshot = NoTab, !.viewport = NoTab] ELSE ts

\* the cache after a scroll that executeAction completed (lines 240-241)
AfterScroll(ts) ==
    [ts EXCEPT !.currentScreenshot = NoTab, !.viewport = NoTab]

\* the cache after tabs.update and the settle delay (lines 271-273)
AfterNavigate(ts) ==
    [ts EXCEPT !.currentScreenshot = NoTab, !.viewport = NoTab, !.lastAnalysis = NULL]

\* the navigate guard without its data: half
UnsafeUrlJavascriptOnly(url) == startsWith(url, "javascript:")

\* the navigate guard of line 261
UnsafeUrl(url) == startsWith(url, "javascript:") \/ startsWith(url, "data:")

\* the guards on a missing argument with the test left out
AbsentNever(arg) == FALSE

\* `x === undefined || y === undefined` (line 168), `!text` (194), `!key`
\* (210), `!direction` (229), `!url` (257)
Absent(arg) == arg = NoArg

Ret(ts, head, detail, update) ==
    [ts |-> ts, result |-> << head, detail >>, update |-> update]

\* case "execute_action" (lines 158-283).  outcome is what the awaited
\* driver call (executeAction, or chrome.tabs.update for navigate) does:
\* "ok" it completes, anything else it throws.
executeActionCase(c, ts, outcome) ==
    CASE c.action = "click" ->
            IF Absent(c.arg) THEN Ret(ts, "Error", "click requires x and y", NoArg)
            ELSE IF outcome = "ok" THEN Ret(AfterClick(ts), "Clicked on", "", NoArg)
            ELSE Ret(ts, "Failed to click", "", NoArg)
      [] c.action = "type" ->
            IF Absent(c.arg) THEN Ret(ts, "Error", "type requires text", NoArg)
            ELSE IF outcome = "ok" THEN Ret(ts, "Typed", "", NoArg)
            ELSE Ret(ts, "Failed to type", "", NoArg)
      [] c.action = "press" ->
            IF Absent(c.arg) THEN Ret(ts, "Error", "press requires key", NoArg)
            ELSE IF outcome = "ok" THEN Ret(AfterPress(ts, c.arg), "Pressed", "", NoArg)
            ELSE Ret(ts, "Failed to press key", "", NoArg)
      [] c.action = "scroll" ->
            IF Absent(c.arg) THEN Ret(ts, "Error", "scroll requires direction", NoArg)
            ELSE IF outcome = "ok" THEN Ret(AfterScroll(ts), "Scrolled", "", NoArg)
            ELSE Ret(ts, "Failed to scroll", "", NoArg)
      [] c.action = "wait" -> Ret(ts, "Waited", "1000ms", NoArg)
      [] c.action = "navigate" ->
            IF Absent(c.arg) THEN Ret(ts, "Error", "navigate requires url", NoArg)
            ELSE IF UnsafeUrl(c.arg) THEN Ret(ts, "Error", "Cannot navigate to unsafe URL", NoArg)
            ELSE IF outcome = "ok" THEN Ret(AfterNavigate(ts), "Navigated to", "", c.arg)
            ELSE Ret(ts, "Failed to navigate", "", NoArg)
      [] OTHER -> Ret(ts, "Error", "Unknown action", NoArg)

\* executeToolCall (lines 41-296) on tab tabId whose URL is url.  For
\* capture_screenshot the outcome "partial" is captureScreenshot completing
\* and getViewportDimensions throwing.
executeToolCall(c, ts, tabId, url, outcome) ==
    CASE c.name = "capture_screenshot" ->
            IF isInternalUrl(url) THEN Ret(ts, "Cannot capture screenshot on this page", "", NoArg)
            ELSE IF outcome = "ok"
                THEN Ret([ts EXCEPT !.currentScreenshot = tabId, !.viewport = tabId],
                         "Screenshot captured", "", NoArg)
            ELSE IF outcome = "partial"
                THEN Ret([ts EXCEPT !.currentScreenshot = tabId],
                         "Failed to capture screenshot", "", NoArg)
            ELSE Ret(ts, "Failed to capture screenshot", "", NoArg)
      [] c.name = "analyze_page" ->
            IF NoScreenshotAvailable(c, ts) THEN Ret(ts, "Error", "No screenshot available", NoArg)
            ELSE IF outcome = "ok"
                THEN Ret([ts EXCEPT !.lastAnalysis = "pageState"], "pageState", "", NoArg)
            ELSE Ret(ts, "Failed to analyze page", "", NoArg)
      [] c.name = "get_a11y_tree" ->
            IF isInternalUrl(url) THEN Ret(ts, "Cannot get accessibility tree on this page", "", NoArg)
            ELSE IF outcome = "ok" THEN Ret(ts, "tree", "", NoArg)
            ELSE Ret(ts, "Failed to get accessibility tree", "", NoArg)
      [] c.name = "find_element" ->
            IF NoScreenshotAvailable(c, ts) THEN Ret(ts, "Error", "No screenshot available", NoArg)
            ELSE IF outcome = "ok"
                THEN Ret([ts EXCEPT !.lastFoundElement = "query"], "Element found at coordinates", "", NoArg)
            ELSE Ret(ts, "Failed to find element", "", NoArg)
      [] c.name = "execute_action" -> executeActionCase(c, ts, outcome)
      [] c.name = "ask_user" -> Ret(ts, "Waiting for user response...", "", NoArg)
      [] c.name = "complete" -> Ret(ts, "Task marked as complete.", "", NoArg)
      [] OTHER -> Ret(ts, "Error", "Unknown tool", NoArg)

\* TRUE when executeToolCall hands c to the driver or to chrome.tabs.update:
\* waitForPageReady and captureScreenshot (lines 59, 65),
\* getAccessibilityTree (116), executeAction (178, 198, 214, 235),
\* chrome.tabs.update (268)
CallsDriver(c, url) ==
    \/ c.name \in { "capture_screenshot", "get_a11y_tree" } /\ ~isInternalUrl(url)
    \/ /\ c.name = "execute_action"
       /\ c.action \in { "click", "type", "press", "scroll" }
       /\ ~Absent(c.arg)
    \/ /\ c.name = "execute_action"
       /\ c.action = "navigate"
       /\ ~Absent(c.arg)
       /\ ~UnsafeUrl(c.arg)

\* the key table with Tab in it
KEY_DEFINITIONS_WithTab ==
    { "Enter", "Tab", "Escape", "Backspace", "ArrowUp", "ArrowDown" }

\* KEY_DEFINITIONS (cdp.ts lines 257-263)
KEY_DEFINITIONS == { "Enter", "Escape", "Backspace", "ArrowUp", "ArrowDown" }

\* press (cdp.ts lines 268-271): `if (!keyDef) throw new Error("Unsupported key")`
UnsupportedKey(kind, arg) == kind = "press" /\ arg[1] \notin KEY_DEFINITIONS

\* what the awaited calls of c can do: executeAction throws on a press of
\* a key that press (cdp.ts) has no definition of
Outcomes(c) ==
    IF c.name = "capture_screenshot" THEN { "ok", "partial", "fail" }
    ELSE IF c.name = "execute_action" /\ ~Absent(c.arg) /\ UnsupportedKey(c.action, c.arg)
      THEN { "fail" }
    ELSE IF c.name = "execute_action" /\ c.action = "wait" THEN { "ok" }
    ELSE { "ok", "fail" }

\* result.startsWith("Error") (background.ts:643)
startsWithError(result) == result[1] = "Error"

---------------------------------------------------------------------------
(* Driver operations (src/src/cdp.ts lines 199-400).  Up to two are under  *)
(* way at a time, one per slot; a slot is reused when its operation has    *)
(* returned.                                                               *)

Slots == { "a", "b" }

\* a slot with no operation: hides and shows count the HIDE_OVERLAY and
\* SHOW_OVERLAY messages of the operation, cmds its debugger commands
\* (attach included), failed tells whether it threw
IdleOp ==
    [ pc |-> "idle", tabId |-> NoTab, kind |-> NULL, arg |-> NoArg,
      hides |-> 0, shows |-> 0, cmds |-> 0, failed |-> FALSE ]

NoOps == [ o \in Slots |-> IdleOp ]

---------------------------------------------------------------------------
(* The session table (background.ts lines 447-471)                         *)

NewTabState(tabId) ==
    [ isRunning |-> FALSE, goal |-> NULL, actionHistory |-> << >>,
      originTabId |-> NoTab, tabId |-> tabId ]

\* getTabState(tabId): the object stored under tabId, created when absent.
\* The three operators give the object's id and the table and heap after
\* the call.
getTabState(tabId) ==
    IF tabId \in DOMAIN tabStates THEN tabStates[tabId] ELSE Len(sessions) + 1

TabStatesAfterGet(tabId) ==
    IF tabId \in DOMAIN tabStates THEN tabStates
    ELSE [t \in DOMAIN tabStates \cup {tabId} |->
            IF t = tabId THEN Len(sessions) + 1 ELSE tabStates[t]]

SessionsAfterGet(tabId) ==
    IF tabId \in DOMAIN tabStates THEN sessions
    ELSE Append(sessions, NewTabState(tabId))

\* tabStates.delete(tabId)
MapDelete(map, tabId) == [t \in DOMAIN map \ {tabId} |-> map[t]]

\* tabStates.set(tabId, sid)
MapSet(map, tabId, sid) ==
    [t \in DOMAIN map \cup {tabId} |-> IF t = tabId THEN sid ELSE map[t]]

---------------------------------------------------------------------------
(* Status broadcasts.  The log keeps the terminal statuses: completed,     *)
(* waiting_for_user, error, stopped.                                       *)

Status(sid, status, message) == [sid |-> sid, status |-> status, message |-> message]

StoppedByUser == "Stopped by user"
TakingLonger  == "This is taking longer than expected."

---------------------------------------------------------------------------
(* runAutomation, tool-calling loop (background.ts lines 519-680)          *)

\* the while condition letting one iteration too many through
LoopConditionInclusive(running, iter) == running /\ iter <= MAX_ITERATIONS

\* the while condition of line 548
LoopCondition(running, iter) == running /\ iter < MAX_ITERATIONS

\* the condition of line 655 under which the catch gives up, with rc the
\* retryCount already incremented
GivesUp(e, rc) == ~CatchRetriable(e) \/ rc >= MAX_RETRIES

\* lines 669-679: the statements after the while loop, with log the status
\* log when the loop is left
AfterLoop(log) ==
    /\ statusLog' = IF iteration >= MAX_ITERATIONS
                      THEN Append(log, Status(state, "stopped", TakingLonger))
                      ELSE log
    /\ sessions' = [sessions EXCEPT ![state].isRunning = FALSE, ![state].goal = NULL]
    /\ pc' = "done"

\* lines 650-666: the catch of one iteration
Catch(e) ==
    /\ retryCount' = retryCount + 1
    /\ IF GivesUp(e, retryCount + 1)
         THEN AfterLoop(Append(statusLog, Status(state, "error", e.message)))
         ELSE /\ pc' = "retryDelay"
              /\ UNCHANGED << statusLog, sessions >>

\* other handlers run only while runAutomation is parked at an await (or
\* has not started, or has returned)
AtAwait == pc # "dispatch"

Goals == { "goal" }

\* cdpPress is not called
PressIdle ==
    /\ keyCombo = << >>
    /\ isMac = FALSE
    /\ pressPc = "idle"
    /\ keyEvents = << >>

\* waitForPageReady is not called
ReadyIdle ==
    /\ readyPc = "idle"
    /\ timeout = 0
    /\ elapsed = 0
    /\ polls = 0

\* no coordinate is converted
CoordIdle ==
    /\ normX = 0
    /\ viewportWidth = 0
    /\ xMilli = 0
    /\ convPc = "none"

\* the chat history is not used
ChatIdle ==
    /\ chatStore = << >>
    /\ appendCalls = << >>
    /\ appended = << >>

\* none of the functions modelled on their own is called, but perhaps the
\* one named
SideIdleBut(model) ==
    /\ pageState = NULL
    /\ IF model = "press" THEN TRUE ELSE PressIdle
    /\ IF model = "ready" THEN TRUE ELSE ReadyIdle
    /\ IF model = "coord" THEN TRUE ELSE CoordIdle
    /\ IF model = "chat" THEN TRUE ELSE ChatIdle
    /\ loop2 = "none"
    /\ pendingQuestion = FALSE
    /\ visionAnswer = FALSE

SideIdle == SideIdleBut("none")

\* the service worker has started, one tab shows a web page, and no run
\* has been asked for
OrchestratorIdle ==
    /\ tabs = {1}
    /\ nextTab = 2
    /\ tabUrl = [ t \in {1} |-> WebUrl ]
    /\ tabStates = << >>
    /\ sessions = << >>
    /\ pc = "idle"
    /\ state = 0
    /\ iteration = 0
    /\ retryCount = 0
    /\ toolState = EmptyToolState
    /\ turn = << >>
    /\ callIdx = 0
    /\ cur = NoCur
    /\ executed = << >>
    /\ statusLog = << >>
    /\ stops = 0
    /\ staleSince = FALSE
    /\ isRunning = FALSE
    /\ currentGoal = NULL
    /\ actionHistory = << >>
    /\ screenshot = NoTab
    /\ viewport = NoTab
    /\ attachedTabs = {}
    /\ ops = NoOps
    /\ response = << >>
    /\ received = 0
    /\ allBoxes = << >>

Init ==
    /\ protocol \in { "tool", "json" }
    /\ tabs = {1}
    /\ nextTab = 2
    /\ tabUrl \in [ {1} -> { WebUrl, InternalUrl } ]
    /\ tabStates = << >>
    /\ sessions = << >>
    /\ pc = "idle"
    /\ state = 0
    /\ iteration = 0
    /\ retryCount = 0
    /\ toolState = EmptyToolState
    /\ turn = << >>
    /\ callIdx = 0
    /\ cur = NoCur
    /\ executed = << >>
    /\ statusLog = << >>
    /\ stops = 0
    /\ staleSince = FALSE
    /\ isRunning = FALSE
    /\ currentGoal = NULL
    /\ actionHistory = << >>
    /\ screenshot = NoTab
    /\ viewport = NoTab
    /\ attachedTabs = {}
    /\ ops = NoOps
    /\ response = << >>
    /\ received = 0
    /\ allBoxes = << >>
    /\ SideIdle

\* onMessage RUN (lines 687-699) and runAutomation up to its first await
\* (lines 519-554)
Run(tabId, goal) ==
    /\ protocol = "tool"
    /\ pc = "idle"
    /\ tabId \in tabs
    /\ tabStates' = TabStatesAfterGet(tabId)
    /\ state' = getTabState(tabId)
    /\ sessions' = [SessionsAfterGet(tabId) EXCEPT
                       ![getTabState(tabId)].isRunning = TRUE,
                       ![getTabState(tabId)].goal = goal,
                       ![getTabState(tabId)].actionHistory = << >>]
    /\ toolState' = EmptyToolState
    /\ iteration' = 1
    /\ retryCount' = 0
    /\ pc' = "tabsGet"
    /\ UNCHANGED << sideVars, visionVars, cdpVars, jsonVars, protocol, tabs, nextTab, tabUrl, turn, callIdx, cur, executed,
                    statusLog, stops, staleSince >>

\* chrome.tabs.get(state.tabId) returns (line 554): the reasoning request
\* of line 564 is sent
TabsGetOk ==
    /\ protocol = "tool"
    /\ pc = "tabsGet"
    /\ sessions[state].tabId \in tabs
    /\ pc' = "chat"
    /\ UNCHANGED << sideVars, visionVars, cdpVars, jsonVars, protocol, tabs, nextTab, tabUrl, tabStates, sessions, state,
                    iteration, retryCount, toolState, turn, callIdx, cur, executed,
                    statusLog, stops, staleSince >>

\* client.chatWithTools throws (line 564)
ChatFails(e) ==
    /\ protocol = "tool"
    /\ pc = "chat"
    /\ Catch(e)
    /\ UNCHANGED << sideVars, visionVars, cdpVars, jsonVars, protocol, tabs, nextTab, tabUrl, tabStates, state, iteration,
                    toolState, turn, callIdx, cur, executed, stops, staleSince >>

\* client.chatWithTools returns a message without tool calls (lines 577-587)
ChatTextOnly(content) ==
    /\ protocol = "tool"
    /\ pc = "chat"
    /\ AfterLoop(IF content # NULL
                   THEN Append(statusLog, Status(state, "completed", content))
                   ELSE statusLog)
    /\ UNCHANGED << sideVars, visionVars, cdpVars, jsonVars, protocol, tabs, nextTab, tabUrl, tabStates, state, iteration,
                    retryCount, toolState, turn, callIdx, cur, executed, stops,
                    staleSince >>

\* client.chatWithTools returns tool calls (lines 566-590)
ChatToolCalls(calls) ==
    /\ protocol = "tool"
    /\ pc = "chat"
    /\ turn' = calls
    /\ callIdx' = 1
    /\ executed' = << >>
    /\ pc' = "dispatch"
    /\ UNCHANGED << sideVars, visionVars, cdpVars, jsonVars, protocol, tabs, nextTab, tabUrl, tabStates, sessions, state,
                    iteration, retryCount, toolState, cur, statusLog, stops,
                    staleSince >>

\* lines 648-649: the for-loop is over (exhausted, or left by a break)
EndOfTurn ==
    /\ retryCount' = 0
    /\ pc' = "iterDelay"
    /\ UNCHANGED << turn, callIdx >>

\* line 591, and the end of the for-loop: nothing (more) of the turn is run
DispatchDone ==
    /\ protocol = "tool"
    /\ pc = "dispatch"
    /\ callIdx > Len(turn) \/ ~sessions[state].isRunning
    /\ EndOfTurn
    /\ UNCHANGED << sideVars, visionVars, cdpVars, jsonVars, protocol, tabs, nextTab, tabUrl, tabStates, sessions, state,
                    iteration, toolState, cur, executed, statusLog, stops, staleSince >>

\* the for-loop reaches a call it will process
AtCall(kind) ==
    /\ protocol = "tool"
    /\ pc = "dispatch"
    /\ callIdx <= Len(turn)
    /\ sessions[state].isRunning
    /\ turn[callIdx] = kind

\* line 594: JSON.parse(argsJson) throws on arguments that are not JSON
DispatchMalformed ==
    /\ \E k \in CallKinds : AtCall(k)
    /\ Catch(OtherErr("syntax"))
    /\ turn' = << >>
    /\ callIdx' = 0
    /\ executed' = << >>
    /\ UNCHANGED << sideVars, visionVars, cdpVars, jsonVars, protocol, tabs, nextTab, tabUrl, tabStates, state, iteration,
                    toolState, cur, stops, staleSince >>

\* complete handled without its broadcast
DispatchCompleteSilent(result) ==
    /\ AtCall("complete")
    /\ executed' = Append(executed, callIdx)
    /\ sessions' = [sessions EXCEPT ![state].isRunning = FALSE]
    /\ EndOfTurn
    /\ UNCHANGED << sideVars, visionVars, cdpVars, jsonVars, protocol, tabs, nextTab, tabUrl, tabStates, state, iteration,
                    toolState, cur, statusLog, stops, staleSince >>

\* lines 601-626: complete
DispatchComplete(result) ==
    /\ AtCall("complete")
    /\ executed' = Append(executed, callIdx)
    /\ statusLog' = Append(statusLog, Status(state, "completed", result))
    /\ sessions' = [sessions EXCEPT ![state].isRunning = FALSE]
    /\ EndOfTurn
    /\ UNCHANGED << sideVars, visionVars, cdpVars, jsonVars, protocol, tabs, nextTab, tabUrl, tabStates, state, iteration,
                    toolState, cur, stops, staleSince >>

\* ask_user handled without clearing the running flag and without the break
DispatchAskUserNoBreak(prompt) ==
    /\ AtCall("ask_user")
    /\ executed' = Append(executed, callIdx)
    /\ statusLog' = Append(statusLog, Status(state, "waiting_for_user", prompt))
    /\ callIdx' = callIdx + 1
    /\ UNCHANGED << sideVars, visionVars, cdpVars, jsonVars, protocol, tabs, nextTab, tabUrl, tabStates, sessions, state,
                    pc, iteration, retryCount, toolState, turn, cur, stops, staleSince >>

\* lines 601-615 and 628-636: ask_user
DispatchAskUser(prompt) ==
    /\ AtCall("ask_user")
    /\ executed' = Append(executed, callIdx)
    /\ statusLog' = Append(statusLog, Status(state, "waiting_for_user", prompt))
    /\ sessions' = [sessions EXCEPT ![state].isRunning = FALSE]
    /\ EndOfTurn
    /\ UNCHANGED << sideVars, visionVars, cdpVars, jsonVars, protocol, tabs, nextTab, tabUrl, tabStates, state, iteration,
                    toolState, cur, stops, staleSince >>

\* lines 601-615 for a call that executeToolCall answers without awaiting
\* anything: the for-loop goes on to the next call at once
DispatchImmediate(c) ==
    /\ AtCall("other")
    /\ ~Awaits(c, toolState)
    /\ executed' = Append(executed, callIdx)
    /\ toolState' = executeToolCall(c, toolState, sessions[state].tabId,
                                    tabUrl[sessions[state].tabId], "ok").ts
    /\ callIdx' = callIdx + 1
    /\ UNCHANGED << sideVars, visionVars, cdpVars, jsonVars, protocol, tabs, nextTab, tabUrl, tabStates, sessions, state, pc,
                    iteration, retryCount, turn, cur, statusLog, stops, staleSince >>

\* line 601 for a call that executeToolCall awaits on: the call is in flight
\* with the tabId it was given
DispatchAwaited(c) ==
    /\ AtCall("other")
    /\ Awaits(c, toolState)
    /\ c.name = "execute_action" =>
            Len(sessions[state].actionHistory) < MaxHistory
    /\ executed' = Append(executed, callIdx)
    /\ cur' = [call |-> c, tabId |-> sessions[state].tabId, result |-> << >>]
    /\ pc' = "tool"
    /\ UNCHANGED << sideVars, visionVars, cdpVars, jsonVars, protocol, tabs, nextTab, tabUrl, tabStates, sessions, state,
                    iteration, retryCount, toolState, turn, callIdx, statusLog,
                    stops, staleSince >>

\* execute_action kinds after which tool-executor.ts empties the cache
Invalidating(c) ==
    /\ c.name = "execute_action"
    /\ c.arg # NoArg
    /\ \/ c.action \in { "click", "scroll" }
       \/ c.action = "press" /\ c.arg = << "Enter" >>
       \/ c.action = "navigate" /\ ~UnsafeUrl(c.arg)

\* staleSince after call c returned result under outcome
StaleAfter(c, outcome, result) ==
    IF result[1] = "Screenshot captured" THEN FALSE
    ELSE IF Invalidating(c) /\ outcome = "ok" THEN TRUE
    ELSE staleSince

\* lines 638-645: the history entry of an execute_action
HistoryAfter(history, c, result) ==
    IF c.name = "execute_action"
      THEN Append(history, [action |-> c.action, arg |-> c.arg,
                            success |-> ~startsWithError(result)])
      ELSE history

\* the executeToolCall in flight returns (lines 601-646)
ToolReturns(outcome) ==
    /\ protocol = "tool"
    /\ pc = "tool"
    /\ outcome \in Outcomes(cur.call)
    /\ LET r == executeToolCall(cur.call, toolState, cur.tabId, tabUrl[cur.tabId], outcome)
       IN /\ toolState' = r.ts
          /\ tabUrl' = IF r.update # NoArg
                         THEN [tabUrl EXCEPT ![cur.tabId] = r.update]
                         ELSE tabUrl
          /\ sessions' = [sessions EXCEPT ![state].actionHistory =
                              HistoryAfter(@, cur.call, r.result)]
          /\ staleSince' = StaleAfter(cur.call, outcome, r.result)
    /\ callIdx' = callIdx + 1
    /\ cur' = NoCur
    /\ pc' = "dispatch"
    /\ UNCHANGED << sideVars, visionVars, cdpVars, jsonVars, protocol, tabs, nextTab, tabStates, state, iteration,
                    retryCount, turn, executed, statusLog, stops >>

\* line 548 evaluated after a delay: another iteration, or the end
LoopTop ==
    IF LoopCondition(sessions[state].isRunning, iteration)
      THEN /\ iteration' = iteration + 1
           /\ pc' = "tabsGet"
           /\ UNCHANGED << statusLog, sessions >>
      ELSE /\ AfterLoop(statusLog)
           /\ UNCHANGED iteration

\* the ITERATION_DELAY_MS timer of line 649 fires
IterationDelayOver ==
    /\ protocol = "tool"
    /\ pc = "iterDelay"
    /\ LoopTop
    /\ turn' = << >>
    /\ callIdx' = 0
    /\ executed' = << >>
    /\ UNCHANGED << sideVars, visionVars, cdpVars, jsonVars, protocol, tabs, nextTab, tabUrl, tabStates, state, retryCount,
                    toolState, cur, stops, staleSince >>

\* the RETRY_DELAY_MS timer of line 665 fires
RetryDelayOver ==
    /\ protocol = "tool"
    /\ pc = "retryDelay"
    /\ LoopTop
    /\ UNCHANGED << sideVars, visionVars, cdpVars, jsonVars, protocol, tabs, nextTab, tabUrl, tabStates, state, retryCount,
                    toolState, turn, callIdx, cur, executed, stops, staleSince >>

\* onMessage STOP from tab tabId (lines 701-712)
Stop(tabId) ==
    /\ protocol = "tool"
    /\ AtAwait
    /\ stops < MaxStops
    /\ tabId \in tabs
    /\ tabStates' = TabStatesAfterGet(tabId)
    /\ sessions' = [SessionsAfterGet(tabId) EXCEPT ![getTabState(tabId)].isRunning = FALSE]
    /\ statusLog' = Append(statusLog, Status(getTabState(tabId), "stopped", StoppedByUser))
    /\ stops' = stops + 1
    /\ UNCHANGED << sideVars, visionVars, cdpVars, jsonVars, protocol, tabs, nextTab, tabUrl, pc, state, iteration, retryCount,
                    toolState, turn, callIdx, cur, executed, staleSince >>

\* chrome.tabs.onCreated listener (lines 473-485): TRUE when the session of
\* the opener moves to the new tab
HandsOff(openerTabId) ==
    /\ openerTabId # NoTab
    /\ openerTabId \in DOMAIN tabStates
    /\ sessions[tabStates[openerTabId]].isRunning

\* lines 480-481
SessionsOnCreated(openerTabId, id) ==
    IF HandsOff(openerTabId)
      THEN [sessions EXCEPT ![tabStates[openerTabId]].originTabId = openerTabId,
                            ![tabStates[openerTabId]].tabId = id]
      ELSE sessions

\* the hand-off without tabStates.delete(openerTabId)
TabStatesOnCreatedKeepOld(openerTabId, id) ==
    IF HandsOff(openerTabId)
      THEN MapSet(tabStates, id, tabStates[openerTabId])
      ELSE tabStates

\* lines 482-483
TabStatesOnCreated(openerTabId, id) ==
    IF HandsOff(openerTabId)
      THEN MapSet(MapDelete(tabStates, openerTabId), id, tabStates[openerTabId])
      ELSE tabStates

\* the browser opens tab nextTab from openerTabId (NoTab: no opener), as
\* long as fewer than max tabs were opened
TabCreatedUpTo(openerTabId, url, max) ==
    /\ protocol = "tool"
    /\ AtAwait
    /\ nextTab <= max
    /\ openerTabId \in tabs \cup { NoTab }
    /\ tabs' = tabs \cup { nextTab }
    /\ nextTab' = nextTab + 1
    /\ tabUrl' = [t \in DOMAIN tabUrl \cup { nextTab } |->
                    IF t = nextTab THEN url ELSE tabUrl[t]]
    /\ sessions' = SessionsOnCreated(openerTabId, nextTab)
    /\ tabStates' = TabStatesOnCreated(openerTabId, nextTab)
    /\ UNCHANGED << sideVars, visionVars, cdpVars, jsonVars, protocol, pc, state, iteration, retryCount, toolState, turn,
                    callIdx, cur, executed, statusLog, stops, staleSince >>

TabCreated(openerTabId, url) == TabCreatedUpTo(openerTabId, url, MaxTabs)

---------------------------------------------------------------------------
(* executeToolCall driven directly: any sequence of tool calls on one tab, *)
(* each with any outcome of its awaited calls.                             *)

InitExecutor ==
    /\ protocol = "executor"
    /\ tabs = {1}
    /\ nextTab = 2
    /\ tabUrl \in [ {1} -> PageUrls ]
    /\ tabStates = << >>
    /\ sessions = << >>
    /\ pc = "ready"
    /\ state = 0
    /\ iteration = 0
    /\ retryCount = 0
    /\ toolState = EmptyToolState
    /\ turn = << >>
    /\ callIdx = 0
    /\ cur = NoCur
    /\ executed = << >>
    /\ statusLog = << >>
    /\ stops = 0
    /\ staleSince = FALSE
    /\ isRunning = FALSE
    /\ currentGoal = NULL
    /\ actionHistory = << >>
    /\ screenshot = NoTab
    /\ viewport = NoTab
    /\ attachedTabs = {}
    /\ ops = NoOps
    /\ response = << >>
    /\ received = 0
    /\ allBoxes = << >>
    /\ SideIdle

AllCalls ==
    OtherCalls \cup { Call("ask_user", NULL, NoArg), Call("complete", NULL, NoArg) }

\* executeToolCall(1, client, c.name, args, toolState, onStatus) is called and
\* runs to its first await, or to its return when it awaits nothing
ExecutorCalls(c) ==
    /\ protocol = "executor"
    /\ pc = "ready"
    /\ IF Awaits(c, toolState)
         THEN /\ cur' = [call |-> c, tabId |-> 1, result |-> << >>]
              /\ pc' = "tool"
              /\ UNCHANGED toolState
         ELSE LET r == executeToolCall(c, toolState, 1, tabUrl[1], "ok")
              IN /\ cur' = [call |-> c, tabId |-> 1, result |-> r.result]
                 /\ toolState' = r.ts
                 /\ UNCHANGED pc
    /\ UNCHANGED << sideVars, visionVars, cdpVars, jsonVars, protocol, tabs, nextTab, tabUrl, tabStates, sessions, state,
                    iteration, retryCount, turn, callIdx, executed, statusLog,
                    stops, staleSince >>

\* the call in flight returns
ExecutorReturns(outcome) ==
    /\ protocol = "executor"
    /\ pc = "tool"
    /\ outcome \in Outcomes(cur.call)
    /\ LET r == executeToolCall(cur.call, toolState, cur.tabId, tabUrl[cur.tabId], outcome)
       IN /\ toolState' = r.ts
          /\ tabUrl' = IF r.update # NoArg
                         THEN [tabUrl EXCEPT ![cur.tabId] = r.update]
                         ELSE tabUrl
          /\ cur' = [cur EXCEPT !.result = r.result]
          /\ staleSince' = StaleAfter(cur.call, outcome, r.result)
    /\ pc' = "ready"
    /\ UNCHANGED << sideVars, visionVars, cdpVars, jsonVars, protocol, tabs, nextTab, tabStates, sessions, state, iteration,
                    retryCount, turn, callIdx, executed, statusLog, stops >>

NextExecutor ==
    \/ \E c \in AllCalls : ExecutorCalls(c)
    \/ \E o \in { "ok", "partial", "fail" } : ExecutorReturns(o)

SpecExecutor == InitExecutor /\ [][NextExecutor]_vars

---------------------------------------------------------------------------
(* runAutomation, JSON-decision loop (background.ts lines 76-382).  It     *)
(* runs on the active tab, tab 1, and keeps its session in module-level    *)
(* variables.  turn holds decision.actions (as "done", "ask_user" or       *)
(* "other"), callIdx is i + 1, cur the action in flight.                   *)

\* the actions of a decision that are neither done nor ask_user
JsonActions ==
    { Call("action", "click", << "target" >>),
      Call("action", "click", NoArg),
      Call("action", "type", << "text" >>),
      Call("action", "navigate", WebUrl),
      Call("action", "navigate", JsUrl),
      Call("action", "navigate", DataUrl) }

\* what client.findElement can throw: an ApiError of the vision API, or the
\* Error for a response without coordinates
FindErrors == { ApiErr(500, "api500"), OtherErr("parse") }

\* the catch without lines 363-365
MarkLastFailedSkipped(history) == history

\* lines 363-365
MarkLastFailed(history) ==
    IF Len(history) > 0
      THEN [history EXCEPT ![Len(history)].success = FALSE]
      ELSE history

\* lines 371-381
AfterLoopJson(log) ==
    /\ statusLog' = IF iteration >= MAX_ITERATIONS
                      THEN Append(log, Status(0, "stopped", TakingLonger))
                      ELSE log
    /\ isRunning' = FALSE
    /\ currentGoal' = NULL
    /\ pc' = "done"

\* lines 347-368
CatchJson(e) ==
    /\ retryCount' = retryCount + 1
    /\ turn' = << >>
    /\ callIdx' = 0
    /\ executed' = << >>
    /\ cur' = NoCur
    /\ IF GivesUp(e, retryCount + 1)
         THEN /\ AfterLoopJson(Append(statusLog, Status(0, "error", e.message)))
              /\ UNCHANGED actionHistory
         ELSE /\ pc' = "retryDelay"
              /\ actionHistory' = MarkLastFailed(actionHistory)
              /\ UNCHANGED << statusLog, isRunning, currentGoal >>

\* onMessage RUN (lines 387-402) and runAutomation up to its first await
\* (lines 76-106)
RunJson(goal) ==
    /\ protocol = "json"
    /\ pc = "idle"
    /\ isRunning' = TRUE
    /\ currentGoal' = goal
    /\ actionHistory' = << >>
    /\ iteration' = 1
    /\ retryCount' = 0
    /\ pc' = "tabsGet"
    /\ UNCHANGED << sideVars, visionVars, cdpVars, protocol, tabs, nextTab, tabUrl, tabStates, sessions, state,
                    toolState, turn, callIdx, cur, executed, statusLog, stops,
                    staleSince, screenshot, viewport >>

\* the page description sent when there is no screenshot (line 191)
CannotCapture == "Cannot capture page"

\* chrome.tabs.get returns (line 106): on an internal URL the observation
\* gets the placeholder of line 191 and the reasoning request of line 217
\* is sent at once, otherwise perception starts
JsonTabsGetOk ==
    /\ protocol = "json"
    /\ pc = "tabsGet"
    /\ screenshot' = NoTab
    /\ pageState' = IF isInternalUrl(tabUrl[1]) THEN CannotCapture ELSE NULL
    /\ pc' = IF isInternalUrl(tabUrl[1]) THEN "decide" ELSE "perceive"
    /\ UNCHANGED << sideModels, askVars, visionVars, cdpVars, protocol, tabs, nextTab, tabUrl, tabStates, sessions, state,
                    iteration, retryCount, toolState, turn, callIdx, cur, executed,
                    statusLog, stops, staleSince, isRunning, currentGoal,
                    actionHistory, viewport >>

\* what the awaited calls of the perception step do: waitForPageReady
\* returns (ready) or throws, captureScreenshot returns a screenshot (shot)
\* or throws, and with a screenshot analyzeScreenshot and, when a question
\* is pending, askQuestion return ("ok") or throw ("fail")
Perceptions ==
    { [ ready |-> r, shot |-> FALSE, analysis |-> "none", answer |-> "none" ] :
        r \in BOOLEAN }
    \cup { [ ready |-> r, shot |-> TRUE, analysis |-> a, answer |-> q ] :
             r \in BOOLEAN, a \in { "ok", "fail" }, q \in { "none", "ok", "fail" } }

\* screenAnalysis.pageState after lines 129-192: the analysis when there is
\* one (line 173), nothing when the vision call failed, the placeholder
\* when there is no screenshot (line 191)
PageStateAfter(p) ==
    IF ~p.shot THEN CannotCapture
    ELSE IF p.analysis = "ok" THEN "pageState"
    ELSE NULL

\* lines 112-192: wait-for-ready, capture and the vision calls are over;
\* every failure is caught (lines 115, 121, 146, 160) and the reasoning
\* request is sent
JsonPerceived(p) ==
    /\ protocol = "json"
    /\ pc = "perceive"
    /\ p \in Perceptions
    /\ p.answer # "none" <=> (p.shot /\ pendingQuestion)
    /\ screenshot' = IF p.shot THEN 1 ELSE NoTab
    /\ pageState' = PageStateAfter(p)
    /\ visionAnswer' = IF p.shot THEN p.answer = "ok" ELSE visionAnswer
    /\ pendingQuestion' = IF p.shot THEN FALSE ELSE pendingQuestion
    /\ pc' = "decide"
    /\ UNCHANGED << sideModels, visionVars, cdpVars, protocol, tabs, nextTab, tabUrl, tabStates, sessions, state,
                    iteration, retryCount, toolState, turn, callIdx, cur, executed,
                    statusLog, stops, staleSince, isRunning, currentGoal,
                    actionHistory, viewport >>

\* client.getNextAction throws (line 217)
JsonDecideFails(e) ==
    /\ protocol = "json"
    /\ pc = "decide"
    /\ CatchJson(e)
    /\ pageState' = NULL
    /\ UNCHANGED << sideModels, askVars, visionVars, cdpVars, protocol, tabs, nextTab, tabUrl, tabStates, sessions, state,
                    iteration, toolState, stops, staleSince, screenshot, viewport >>

\* client.getNextAction returns a decision (lines 217-233), with a question
\* for the vision model or without
JsonDecidedAsking(actions, question) ==
    /\ protocol = "json"
    /\ pc = "decide"
    /\ turn' = actions
    /\ callIdx' = 1
    /\ executed' = << >>
    /\ viewport' = NoTab
    /\ pageState' = NULL
    /\ visionAnswer' = FALSE
    /\ pendingQuestion' = question
    /\ pc' = "viewport"
    /\ UNCHANGED << sideModels, visionVars, cdpVars, protocol, tabs, nextTab, tabUrl, tabStates, sessions, state,
                    iteration, retryCount, toolState, cur, statusLog, stops,
                    staleSince, isRunning, currentGoal, actionHistory, screenshot >>

\* a decision without a question
JsonDecided(actions) == JsonDecidedAsking(actions, FALSE)

\* lines 231-242: the viewport lookup (made only with a screenshot) and
\* CLEAR_BOXES are over
JsonViewport(ok) ==
    /\ protocol = "json"
    /\ pc = "viewport"
    /\ viewport' = IF screenshot # NoTab /\ ok THEN 1 ELSE NoTab
    /\ pc' = "dispatch"
    /\ UNCHANGED << sideVars, visionVars, cdpVars, protocol, tabs, nextTab, tabUrl, tabStates, sessions, state,
                    iteration, retryCount, toolState, turn, callIdx, cur, executed,
                    statusLog, stops, staleSince, isRunning, currentGoal,
                    actionHistory, screenshot >>

\* lines 244-245, and the end of actionLoop
JsonDispatchDone ==
    /\ protocol = "json"
    /\ pc = "dispatch"
    /\ callIdx > Len(turn) \/ ~isRunning
    /\ EndOfTurn
    /\ UNCHANGED << sideVars, visionVars, cdpVars, protocol, tabs, nextTab, tabUrl, tabStates, sessions, state,
                    iteration, toolState, cur, executed, statusLog, stops, staleSince,
                    isRunning, currentGoal, actionHistory, screenshot, viewport >>

\* actionLoop reaches an action it will process
AtAction(kind) ==
    /\ protocol = "json"
    /\ pc = "dispatch"
    /\ callIdx <= Len(turn)
    /\ isRunning
    /\ turn[callIdx] = kind

\* lines 251-259
JsonDone(result) ==
    /\ AtAction("done")
    /\ statusLog' = Append(statusLog, Status(0, "completed", result))
    /\ isRunning' = FALSE
    /\ EndOfTurn
    /\ UNCHANGED << sideVars, visionVars, cdpVars, protocol, tabs, nextTab, tabUrl, tabStates, sessions, state,
                    iteration, toolState, cur, executed, stops, staleSince, currentGoal,
                    actionHistory, screenshot, viewport >>

\* lines 261-268
JsonAskUser(prompt) ==
    /\ AtAction("ask_user")
    /\ statusLog' = Append(statusLog, Status(0, "waiting_for_user", prompt))
    /\ isRunning' = FALSE
    /\ EndOfTurn
    /\ UNCHANGED << sideVars, visionVars, cdpVars, protocol, tabs, nextTab, tabUrl, tabStates, sessions, state,
                    iteration, toolState, cur, executed, stops, staleSince, currentGoal,
                    actionHistory, screenshot, viewport >>

\* lines 272-280: the click cannot be attempted
ClickThrows(a) ==
    a.arg = NoArg \/ screenshot = NoTab \/ viewport = NoTab

\* actionLoop reaches action a of kind "other"
AtOther(a) == AtAction("other") /\ a \in JsonActions

\* the history can take one more entry.  It is bounded by MaxHistory
\* entries; a decision of more than MaxCalls actions (SpecChain has them)
\* finds room for all of its actions.
HistoryRoom ==
    Len(actionHistory) < (IF Len(turn) > MaxCalls THEN Len(turn) ELSE MaxHistory)

\* lines 270-280: a click without target, screenshot or viewport throws
JsonClickThrows(a) ==
    /\ AtOther(a)
    /\ a.action = "click"
    /\ ClickThrows(a)
    /\ CatchJson(OtherErr("click"))
    /\ UNCHANGED << sideVars, visionVars, cdpVars, protocol, tabs, nextTab, tabUrl, tabStates, sessions, state,
                    iteration, toolState, stops, staleSince, screenshot, viewport >>

\* line 288: client.findElement is in flight
JsonClickFinds(a) ==
    /\ AtOther(a)
    /\ a.action = "click"
    /\ ~ClickThrows(a)
    /\ HistoryRoom
    /\ executed' = Append(executed, callIdx)
    /\ cur' = [call |-> a, tabId |-> 1, result |-> << >>]
    /\ pc' = "find"
    /\ UNCHANGED << sideVars, visionVars, cdpVars, jsonVars, protocol, tabs, nextTab, tabUrl, tabStates, sessions,
                    state, iteration, retryCount, toolState, turn, callIdx,
                    statusLog, stops, staleSince >>

\* client.findElement returns: executeAction is called (lines 289-328)
JsonFindReturns ==
    /\ protocol = "json"
    /\ pc = "find"
    /\ pc' = "act"
    /\ UNCHANGED << sideVars, visionVars, cdpVars, jsonVars, protocol, tabs, nextTab, tabUrl, tabStates, sessions,
                    state, iteration, retryCount, toolState, turn, callIdx, cur,
                    executed, statusLog, stops, staleSince >>

\* client.findElement throws
JsonFindFails(e) ==
    /\ protocol = "json"
    /\ pc = "find"
    /\ CatchJson(e)
    /\ UNCHANGED << sideVars, visionVars, cdpVars, protocol, tabs, nextTab, tabUrl, tabStates, sessions, state,
                    iteration, toolState, stops, staleSince, screenshot, viewport >>

\* lines 331-342 and 345-346: the action is recorded; ACTION_DELAY_MS before
\* the next one, or the end of the turn
ActionRecorded(a) ==
    /\ actionHistory' = Append(actionHistory,
                               [action |-> a.action, arg |-> a.arg, success |-> TRUE])
    /\ cur' = NoCur
    /\ IF callIdx < Len(turn)
         THEN /\ pc' = "actionDelay"
              /\ UNCHANGED << retryCount, turn, callIdx >>
         ELSE EndOfTurn

\* lines 318-322: navigate to a javascript: or data: URL is skipped
JsonNavigateBlocked(a) ==
    /\ AtOther(a)
    /\ a.action = "navigate"
    /\ UnsafeUrl(a.arg)
    /\ HistoryRoom
    /\ executed' = Append(executed, callIdx)
    /\ ActionRecorded(a)
    /\ UNCHANGED << sideVars, visionVars, cdpVars, protocol, tabs, nextTab, tabUrl, tabStates, sessions, state,
                    iteration, toolState, statusLog, stops, staleSince, isRunning,
                    currentGoal, screenshot, viewport >>

\* lines 324 and 328: chrome.tabs.update or executeAction is in flight
JsonActStarts(a) ==
    /\ AtOther(a)
    /\ a.action # "click"
    /\ a.action = "navigate" => ~UnsafeUrl(a.arg)
    /\ HistoryRoom
    /\ executed' = Append(executed, callIdx)
    /\ cur' = [call |-> a, tabId |-> 1, result |-> << >>]
    /\ pc' = "act"
    /\ UNCHANGED << sideVars, visionVars, cdpVars, jsonVars, protocol, tabs, nextTab, tabUrl, tabStates, sessions,
                    state, iteration, retryCount, toolState, turn, callIdx,
                    statusLog, stops, staleSince >>

\* chrome.tabs.update (and the settle delay) or executeAction returns
JsonActReturns ==
    /\ protocol = "json"
    /\ pc = "act"
    /\ tabUrl' = IF cur.call.action = "navigate"
                   THEN [tabUrl EXCEPT ![1] = cur.call.arg]
                   ELSE tabUrl
    /\ ActionRecorded(cur.call)
    /\ UNCHANGED << sideVars, visionVars, cdpVars, protocol, tabs, nextTab, tabStates, sessions, state, iteration,
                    toolState, executed, statusLog, stops, staleSince, isRunning,
                    currentGoal, screenshot, viewport >>

\* chrome.tabs.update or executeAction throws
JsonActFails ==
    /\ protocol = "json"
    /\ pc = "act"
    /\ CatchJson(OtherErr("driver"))
    /\ UNCHANGED << sideVars, visionVars, cdpVars, protocol, tabs, nextTab, tabUrl, tabStates, sessions, state,
                    iteration, toolState, stops, staleSince, screenshot, viewport >>

\* the ACTION_DELAY_MS timer of line 340 fires: i++
JsonActionDelayOver ==
    /\ protocol = "json"
    /\ pc = "actionDelay"
    /\ callIdx' = callIdx + 1
    /\ pc' = "dispatch"
    /\ UNCHANGED << sideVars, visionVars, cdpVars, jsonVars, protocol, tabs, nextTab, tabUrl, tabStates, sessions,
                    state, iteration, retryCount, toolState, turn, cur, executed,
                    statusLog, stops, staleSince >>

\* line 97 evaluated after a delay
LoopTopJson ==
    IF LoopCondition(isRunning, iteration)
      THEN /\ iteration' = iteration + 1
           /\ pc' = "tabsGet"
           /\ UNCHANGED << statusLog, isRunning, currentGoal >>
      ELSE /\ AfterLoopJson(statusLog)
           /\ UNCHANGED iteration

\* the ITERATION_DELAY_MS timer (line 346) or the RETRY_DELAY_MS timer
\* (line 367) fires
JsonDelayOver ==
    /\ protocol = "json"
    /\ pc \in { "iterDelay", "retryDelay" }
    /\ LoopTopJson
    /\ turn' = << >>
    /\ callIdx' = 0
    /\ executed' = << >>
    /\ UNCHANGED << sideVars, visionVars, cdpVars, protocol, tabs, nextTab, tabUrl, tabStates, sessions, state,
                    retryCount, toolState, cur, stops, staleSince, actionHistory,
                    screenshot, viewport >>

\* onMessage STOP (lines 404-412)
StopJson ==
    /\ protocol = "json"
    /\ AtAwait
    /\ stops < MaxStops
    /\ isRunning' = FALSE
    /\ statusLog' = Append(statusLog, Status(0, "stopped", StoppedByUser))
    /\ stops' = stops + 1
    /\ UNCHANGED << sideVars, visionVars, cdpVars, protocol, tabs, nextTab, tabUrl, tabStates, sessions, pc, state,
                    iteration, retryCount, toolState, turn, callIdx, cur, executed,
                    staleSince, currentGoal, actionHistory, screenshot, viewport >>

JsonTurns == UNION { [1..n -> { "done", "ask_user", "other" }] : n \in 1..MaxCalls }

NextJson ==
    \/ \E g \in Goals : RunJson(g)
    \/ JsonTabsGetOk
    \/ \E p \in Perceptions : JsonPerceived(p)
    \/ \E e \in ChatErrors : JsonDecideFails(e)
    \/ \E actions \in JsonTurns, q \in BOOLEAN : JsonDecidedAsking(actions, q)
    \/ \E ok \in BOOLEAN : JsonViewport(ok)
    \/ JsonDispatchDone
    \/ \E r \in Results : JsonDone(r)
    \/ \E p \in Prompts : JsonAskUser(p)
    \/ \E a \in JsonActions : JsonClickThrows(a)
    \/ \E a \in JsonActions : JsonClickFinds(a)
    \/ JsonFindReturns
    \/ \E e \in FindErrors : JsonFindFails(e)
    \/ \E a \in JsonActions : JsonNavigateBlocked(a)
    \/ \E a \in JsonActions : JsonActStarts(a)
    \/ JsonActReturns
    \/ JsonActFails
    \/ JsonActionDelayOver
    \/ JsonDelayOver
    \/ StopJson

\* the steps of runAutomation itself: an awaited call returns or throws, or
\* the for-loop examines the next call
StepTool ==
    \/ TabsGetOk
    \/ \E e \in ChatErrors : ChatFails(e)
    \/ \E content \in Results \cup { NULL } : ChatTextOnly(content)
    \/ \E calls \in Turns : ChatToolCalls(calls)
    \/ DispatchDone
    \/ DispatchMalformed
    \/ \E r \in Results : DispatchComplete(r)
    \/ \E p \in Prompts : DispatchAskUser(p)
    \/ \E c \in LoopCalls : DispatchImmediate(c)
    \/ \E c \in LoopCalls : DispatchAwaited(c)
    \/ \E o \in { "ok", "partial", "fail" } : ToolReturns(o)
    \/ IterationDelayOver
    \/ RetryDelayOver

NextTool ==
    \/ \E t \in tabs, g \in Goals : Run(t, g)
    \/ StepTool
    \/ \E t \in tabs : Stop(t)

Next == NextTool \/ NextJson

Spec == Init /\ [][Next]_vars

\* The tool-calling generation alone, with every awaited call of
\* runAutomation eventually returning or throwing.
InitTool == Init /\ protocol = "tool"

SpecToolFair == InitTool /\ [][NextTool]_vars /\ WF_vars(StepTool)

\* The tool-calling generation with tabs being opened while it runs.  The
\* reasoning model answers with text, or with one navigate per turn, or the
\* request fails: what the session table sees of a run is its start, its
\* history growing, and its end.
NextTabs ==
    \/ \E t \in tabs, g \in Goals : Run(t, g)
    \/ TabsGetOk
    \/ \E e \in ChatErrors : ChatFails(e)
    \/ \E content \in Results \cup { NULL } : ChatTextOnly(content)
    \/ ChatToolCalls(<< "other" >>)
    \/ DispatchDone
    \/ DispatchAwaited(Call("execute_action", "navigate", WebUrl))
    \/ \E o \in { "ok", "fail" } : ToolReturns(o)
    \/ IterationDelayOver
    \/ RetryDelayOver
    \/ \E t \in tabs : Stop(t)
    \/ \E o \in tabs \cup { NoTab }, u \in { WebUrl, InternalUrl } : TabCreated(o, u)

SpecTabs == InitTool /\ [][NextTabs]_vars

---------------------------------------------------------------------------
(* The tool-calling generation with the reasoning model asking for page    *)
(* actions: each tool call of a turn is one of ActionPalette.              *)

ActionPalette ==
    { Call("capture_screenshot", NULL, NoArg),
      Call("execute_action", "click", << "xy" >>),
      Call("execute_action", "click", NoArg),
      Call("execute_action", "type", << "text" >>),
      Call("execute_action", "type", NoArg),
      Call("execute_action", "press", NoArg),
      Call("execute_action", "scroll", NoArg),
      Call("execute_action", "navigate", WebUrl),
      Call("execute_action", "navigate", NoArg),
      Call("execute_action", "hover", NoArg) }

NextActions ==
    \/ \E t \in tabs, g \in Goals : Run(t, g)
    \/ TabsGetOk
    \/ ChatTextOnly(NULL)
    \/ \E n \in 1 .. MaxCalls : ChatToolCalls([i \in 1 .. n |-> "other"])
    \/ DispatchDone
    \/ \E c \in ActionPalette : DispatchAwaited(c)
    \/ \E o \in { "ok", "partial", "fail" } : ToolReturns(o)
    \/ IterationDelayOver

SpecActions == InitTool /\ [][NextActions]_vars

---------------------------------------------------------------------------
(* The protocol driver (src/src/cdp.ts lines 199-400).  An operation is    *)
(* executeAction or captureScreenshot called on a tab; it is parked at an  *)
(* await in every pc but "idle":                                           *)
(*   "hide"   hideOverlay: HIDE_OVERLAY sent, then the 50 ms pause;        *)
(*   "attach" ensureDebugger: chrome.debugger.attach issued;               *)
(*   "cmd"    a chrome.debugger.sendCommand issued;                        *)
(*   "show"   the finally block: SHOW_OVERLAY sent.                        *)
(* Operations of overlapping runs interleave at these awaits.              *)

\* every variable of the orchestrator that the driver does not touch
loopVars == << protocol, pc, state, iteration, retryCount, toolState, turn,
               callIdx, cur, executed, statusLog, stops, staleSince,
               sessions, nextTab, tabUrl, response, received, allBoxes >>

\* every variable of the orchestrator and the driver
coreVars == << loopVars, jsonVars, cdpVars, tabs, tabStates >>

\* every variable but those of cdpPress, and but those of waitForPageReady
\* and attachedTabs
restOfPress == << coreVars, pageState, askVars, readyVars, coordVars, chatVars, loop2 >>
restOfReady == << loopVars, jsonVars, tabs, tabStates, ops, pageState, askVars, pressVars,
                 coordVars, chatVars, loop2 >>
restOfCoord == << coreVars, pageState, askVars, pressVars, readyVars, chatVars, loop2 >>
restOfChat == << coreVars, pageState, askVars, pressVars, readyVars, coordVars, loop2 >>

\* the operations: [kind, arg].  A click carries its coordinates or none, a
\* type its text (one token per character), a press its key, a scroll its
\* direction.
DriverOp(kind, arg) == [ kind |-> kind, arg |-> arg ]

DriverOps ==
    { DriverOp("click", << "x", "y" >>), DriverOp("click", NoArg),
      DriverOp("type", << "h", "i" >>), DriverOp("type", NoArg),
      DriverOp("press", << "Enter" >>), DriverOp("press", << "Tab" >>),
      DriverOp("scroll", << "down" >>), DriverOp("capture", NoArg) }

\* how many sendCommand calls the operation makes when none fails: click
\* (224-242) two, type (244-255) one per character, press (265-289) two,
\* scroll (291-321) one, captureScreenshot (352-363) one
Commands(kind, arg) ==
    CASE kind = "click" -> 2
      [] kind = "type" -> Len(arg)
      [] kind = "press" -> 2
      [] kind = "scroll" -> 1
      [] kind = "capture" -> 1

\* withHiddenOverlay with `finally` left out: SHOW_OVERLAY is sent only
\* when fn() returned
showOverlayOnReturn(op, threw) ==
    [ op EXCEPT !.pc = "show", !.shows = IF threw THEN @ ELSE @ + 1,
                !.failed = threw ]

\* showOverlay sends SHOW_OVERLAY from the finally block of
\* withHiddenOverlay (lines 374-381); threw tells whether fn() threw
showOverlay(op, threw) ==
    [ op EXCEPT !.pc = "show", !.shows = @ + 1, !.failed = threw ]

\* the operation's body once ensureDebugger has returned: the unsupported
\* key throws, an operation with no command returns, any other issues its
\* first command
AfterEnsure(op) ==
    IF UnsupportedKey(op.kind, op.arg) THEN showOverlay(op, TRUE)
    ELSE IF Commands(op.kind, op.arg) = 0 THEN showOverlay(op, FALSE)
    ELSE [ op EXCEPT !.pc = "cmd", !.cmds = @ + 1 ]

\* ensureDebugger (lines 213-222) up to its await: the attach is issued
\* when the tab is not in attachedTabs
ensureDebugger(op) ==
    IF op.tabId \in attachedTabs THEN AfterEnsure(op)
    ELSE [ op EXCEPT !.pc = "attach" ]

\* executeAction (lines 383-400) and captureScreenshot (352-363) up to the
\* first await.  A click without coordinates does nothing at all.
StartOp(o, tabId, d) ==
    /\ ops[o].pc = "idle"
    /\ tabId \in 1 .. (nextTab - 1)
    /\ d \in DriverOps
    /\ ops' = [ ops EXCEPT ![o] =
                  IF d.kind = "click" /\ d.arg = NoArg THEN IdleOp
                  ELSE [ IdleOp EXCEPT !.pc = "hide", !.tabId = tabId,
                                       !.kind = d.kind, !.arg = d.arg,
                                       !.hides = 1 ] ]
    /\ UNCHANGED << sideVars, loopVars, jsonVars, tabs, tabStates, attachedTabs >>

\* hideOverlay has returned (the message's failure is swallowed, line 366);
\* fn() starts with ensureDebugger
HideOver(o) ==
    /\ ops[o].pc = "hide"
    /\ ops' = [ ops EXCEPT ![o] = ensureDebugger(ops[o]) ]
    /\ UNCHANGED << sideVars, loopVars, jsonVars, tabs, tabStates, attachedTabs >>

\* chrome.debugger.attach returns (lines 215-220).  The browser accepts it
\* for an open tab that has no debugger attached.
AttachReturns(o, ok) ==
    /\ ops[o].pc = "attach"
    /\ IF ok
       THEN /\ ops[o].tabId \in tabs
            /\ ops[o].tabId \notin attachedTabs
            /\ attachedTabs' = attachedTabs \cup { ops[o].tabId }
            /\ ops' = [ ops EXCEPT ![o] = AfterEnsure(ops[o]) ]
       ELSE /\ attachedTabs' = attachedTabs
            /\ ops' = [ ops EXCEPT ![o] = showOverlay(ops[o], TRUE) ]
    /\ UNCHANGED << sideVars, loopVars, jsonVars, tabs, tabStates >>

\* a sendCommand returns: the next command is issued, or the operation's
\* body is over
CommandReturns(o, ok) ==
    /\ ops[o].pc = "cmd"
    /\ ok => ops[o].tabId \in tabs
    /\ ops' = [ ops EXCEPT ![o] =
                  IF ~ok THEN showOverlay(ops[o], TRUE)
                  ELSE IF ops[o].cmds < Commands(ops[o].kind, ops[o].arg)
                       THEN [ ops[o] EXCEPT !.cmds = @ + 1 ]
                       ELSE showOverlay(ops[o], FALSE) ]
    /\ UNCHANGED << sideVars, loopVars, jsonVars, tabs, tabStates, attachedTabs >>

\* showOverlay has returned (its failure is swallowed, line 371): the
\* operation returns or rethrows
ShowReturns(o) ==
    /\ ops[o].pc = "show"
    /\ ops' = [ ops EXCEPT ![o] = IdleOp ]
    /\ UNCHANGED << sideVars, loopVars, jsonVars, tabs, tabStates, attachedTabs >>

\* the onRemoved listeners with the one of cdp.ts left out
TabRemovedSessionOnly(tabId) ==
    /\ tabId \in tabs
    /\ tabs' = tabs \ { tabId }
    /\ tabStates' = MapDelete(tabStates, tabId)
    /\ UNCHANGED << sideVars, loopVars, jsonVars, ops, attachedTabs >>

\* chrome.tabs.onRemoved: background.ts lines 488-491 and cdp.ts lines
\* 209-211
TabRemoved(tabId) ==
    /\ tabId \in tabs
    /\ tabs' = tabs \ { tabId }
    /\ tabStates' = MapDelete(tabStates, tabId)
    /\ attachedTabs' = attachedTabs \ { tabId }
    /\ UNCHANGED << sideVars, loopVars, jsonVars, ops >>

\* the driver alone: operations of any kind on the open and the closed
\* tabs, two at a time, while tabs open and close
NextDebugger ==
    \/ \E o \in Slots, t \in 1 .. MaxTabs, d \in DriverOps : StartOp(o, t, d)
    \/ \E o \in Slots : HideOver(o)
    \/ \E o \in Slots, ok \in BOOLEAN : AttachReturns(o, ok)
    \/ \E o \in Slots, ok \in BOOLEAN : CommandReturns(o, ok)
    \/ \E o \in Slots : ShowReturns(o)
    \/ \E t \in tabs : TabRemoved(t)
    \/ TabCreated(NoTab, WebUrl)

SpecDebugger == InitTool /\ [][NextDebugger]_vars

---------------------------------------------------------------------------
(* Tabs closing under a run of the tool-calling generation.                *)

\* `await chrome.tabs.get(state.tabId)` (background.ts line 554) rejects:
\* the tab of the session is closed
TabsGetFails ==
    /\ protocol = "tool"
    /\ pc = "tabsGet"
    /\ sessions[state].tabId \notin tabs
    /\ Catch(OtherErr("No tab with id"))
    /\ UNCHANGED << sideVars, visionVars, cdpVars, jsonVars, protocol, tabs, nextTab, tabUrl, tabStates, state, iteration,
                    toolState, turn, callIdx, cur, executed, stops, staleSince >>

\* the steps of runAutomation, with the reasoning model's answers cut down
\* to text, or one get_a11y_tree per turn (a call that leaves no entry in
\* the history, whose length the model bounds)
StepClose ==
    \/ TabsGetOk
    \/ TabsGetFails
    \/ ChatFails(ApiErr(500, "api500"))
    \/ ChatTextOnly(NULL)
    \/ ChatToolCalls(<< "other" >>)
    \/ DispatchDone
    \/ DispatchAwaited(Call("get_a11y_tree", NULL, NoArg))
    \/ \E o \in { "ok", "fail" } : ToolReturns(o)
    \/ IterationDelayOver
    \/ RetryDelayOver

\* a run, tabs opening and closing under it, and screenshot captures by
\* the driver, which attach the debugger
NextClose ==
    \/ \E t \in tabs, g \in Goals : Run(t, g)
    \/ StepClose
    \/ \E t \in 1 .. MaxTabs : StartOp("a", t, DriverOp("capture", NoArg))
    \/ HideOver("a")
    \/ \E ok \in BOOLEAN : AttachReturns("a", ok)
    \/ \E ok \in BOOLEAN : CommandReturns("a", ok)
    \/ ShowReturns("a")
    \/ \E t \in tabs : TabRemoved(t)
    \/ \E o \in tabs : TabCreated(o, WebUrl)

\* the run's tab shows a web page
InitClose == InitTool /\ tabUrl[1] = WebUrl

\* every awaited call of runAutomation eventually returns or throws
SpecClose == InitClose /\ [][NextClose]_vars /\ WF_vars(StepClose)

---------------------------------------------------------------------------
(* parseBoxes and analyzeScreenshot (src/unnamed/part_002 lines 25-51 and  *)
(* 105-134).  A text is a sequence of tokens, the pieces tokenRegex (lines *)
(* 29-30) reads as units:                                                  *)
(*   "CO"  <collection          "CC"  </collection>                        *)
(*   "PB"  <point_box           "M"   (space)mention="                     *)
(*   "Q"   "                    "GT"  >                                     *)
(*   "XY1", "XY2"  the coordinates and </point_box>, for two boxes         *)
(*   "a", "b"      text without quote or bracket                           *)
(* A match of tokenRegex begins at the start of a token and ends at the    *)
(* end of one, so cutting the text between tokens is every way of cutting  *)
(* it that matters.                                                        *)

\* the tokens whose last character is the quote, and those whose last
\* character is >
QuoteTokens == { "M", "Q" }
GtTokens    == { "GT", "XY1", "XY2", "CC" }
BodyTokens  == { "XY1", "XY2" }

\* JavaScript's undefined, among the labels (an empty mention is << >>)
Undefined == << "undefined" >>

\* the index of the first token of S at or after i, 0 when there is none
RECURSIVE FirstIn(_, _, _)
FirstIn(text, i, S) ==
    IF i > Len(text) THEN 0
    ELSE IF text[i] \in S THEN i
    ELSE FirstIn(text, i + 1, S)

\* the group ([^"]*): the text from token i to the quote that ends token j
Mention(text, i, j) ==
    SubSeq(text, i, j - 1) \o (IF text[j] = "M" THEN << "mention=" >> ELSE << >>)

\* <collection\s+mention="([^"]*)"[^>]*> tried at token i: the index of the
\* token that ends the match, 0 when it does not match
CollectionEnd(text, i) ==
    IF i + 1 <= Len(text) /\ text[i] = "CO" /\ text[i + 1] = "M"
      THEN LET j == FirstIn(text, i + 2, QuoteTokens)
           IN IF j = 0 THEN 0 ELSE FirstIn(text, j + 1, GtTokens)
      ELSE 0

\* <point_box(?:\s+mention="([^"]*)")?>\s*\((\d+)...\)\s*<\/point_box> tried
\* at token i: the index of the token that ends the match, 0 when it does
\* not match
BoxEnd(text, i) ==
    IF i + 2 > Len(text) \/ text[i] # "PB" THEN 0
    ELSE IF text[i + 1] = "M"
      THEN LET j == FirstIn(text, i + 2, QuoteTokens)
           IN IF j # 0 /\ j + 2 <= Len(text) /\ text[j + 1] = "GT"
                 /\ text[j + 2] \in BodyTokens
                THEN j + 2 ELSE 0
    ELSE IF text[i + 1] = "GT" /\ text[i + 2] \in BodyTokens THEN i + 2
    ELSE 0

\* match[2] of a point_box matched at token i
BoxMention(text, i) ==
    IF text[i + 1] = "M"
      THEN Mention(text, i + 2, FirstIn(text, i + 2, QuoteTokens))
      ELSE Undefined

\* `a || b` on labels with every own mention taken, the empty one too
OrElseNullish(a, b) == IF a = Undefined THEN b ELSE a

\* `match[2] || collectionLabel` (line 42): undefined and "" make way
OrElse(a, b) == IF a = Undefined \/ a = << >> THEN b ELSE a

\* the while loop of lines 34-49 from token i on
RECURSIVE Scan(_, _, _, _)
Scan(text, i, collectionLabel, boxes) ==
    IF i > Len(text) THEN boxes
    ELSE IF CollectionEnd(text, i) # 0
      THEN Scan(text, CollectionEnd(text, i) + 1,
                Mention(text, i + 2, FirstIn(text, i + 2, QuoteTokens)), boxes)
    ELSE IF text[i] = "CC" THEN Scan(text, i + 1, Undefined, boxes)
    ELSE IF BoxEnd(text, i) # 0
      THEN Scan(text, BoxEnd(text, i) + 1, collectionLabel,
                Append(boxes, [ label |-> OrElse(BoxMention(text, i), collectionLabel),
                                xy |-> text[BoxEnd(text, i)] ]))
    ELSE Scan(text, i + 1, collectionLabel, boxes)

parseBoxes(content) == Scan(content, 1, Undefined, << >>)

\* what a response is made of: a box without mention, with a mention, with
\* an empty mention, an opening collection tag, the closing one, and
\* pieces of tags out of place (a collection tag cut after the quote, a
\* quote)
Fragments ==
    { << "PB", "GT", "XY1" >>,
      << "PB", "M", "b", "Q", "GT", "XY2" >>,
      << "PB", "M", "Q", "GT", "XY2" >>,
      << "CO", "M", "a", "Q", "GT" >>,
      << "CC" >>,
      << "CO", "M" >>,
      << "Q" >> }

\* the text of a sequence of fragments
RECURSIVE Flatten(_)
Flatten(fs) == IF fs = << >> THEN << >> ELSE Head(fs) \o Flatten(Tail(fs))

Texts == UNION { [ 1 .. n -> Fragments ] : n \in 0 .. MaxFragments }

\* analyzeScreenshot is called; the vision model will stream some text
InitVision ==
    /\ protocol = "vision"
    /\ tabs = {1}
    /\ nextTab = 2
    /\ tabUrl = [ t \in {1} |-> WebUrl ]
    /\ tabStates = << >>
    /\ sessions = << >>
    /\ pc = "stream"
    /\ state = 0
    /\ iteration = 0
    /\ retryCount = 0
    /\ toolState = EmptyToolState
    /\ turn = << >>
    /\ callIdx = 0
    /\ cur = NoCur
    /\ executed = << >>
    /\ statusLog = << >>
    /\ stops = 0
    /\ staleSince = FALSE
    /\ isRunning = FALSE
    /\ currentGoal = NULL
    /\ actionHistory = << >>
    /\ screenshot = NoTab
    /\ viewport = NoTab
    /\ attachedTabs = {}
    /\ ops = NoOps
    /\ response \in Texts
    /\ received = 0
    /\ allBoxes = << >>
    /\ SideIdle

\* the stream callback of lines 123-129 on a delta of k tokens; `content`
\* is the first `received` tokens of the response
Delta(k) ==
    /\ protocol = "vision"
    /\ pc = "stream"
    /\ k \in 1 .. (Len(Flatten(response)) - received)
    /\ received' = received + k
    /\ LET parsed == parseBoxes(SubSeq(Flatten(response), 1, received + k))
           newBoxes == SubSeq(parsed, Len(allBoxes) + 1, Len(parsed))
       IN allBoxes' = allBoxes \o newBoxes
    /\ UNCHANGED << sideVars, cdpVars, jsonVars, protocol, tabs, nextTab, tabUrl, tabStates,
                    sessions, pc, state, iteration, retryCount, toolState, turn,
                    callIdx, cur, executed, statusLog, stops, staleSince, response >>

\* streamChatCompletion returns: analyzeScreenshot returns content and
\* allBoxes (lines 131-133)
StreamEnds ==
    /\ protocol = "vision"
    /\ pc = "stream"
    /\ received = Len(Flatten(response))
    /\ pc' = "done"
    /\ UNCHANGED << sideVars, visionVars, cdpVars, jsonVars, protocol, tabs, nextTab, tabUrl,
                    tabStates, sessions, state, iteration, retryCount, toolState,
                    turn, callIdx, cur, executed, statusLog, stops, staleSince >>

NextVision ==
    \/ \E k \in 1 .. (MaxFragments * 6) : Delta(k)
    \/ StreamEnds

SpecVision == InitVision /\ [][NextVision]_vars

---------------------------------------------------------------------------
(* cdpPress (src/unnamed/part_009 lines 592-699).  The key argument is     *)
(* the sequence of its parts between "+" signs; the modifier bit mask is   *)
(* the set of modifier names whose bit is set.                             *)
---------------------------------------------------------------------------

\* KEY_DEFINITIONS of this generation (lines 592-611): the names it has
KeyNames ==
    { "Enter", "Tab", "Escape", "Backspace", "Delete", "ArrowUp", "ArrowDown",
      "ArrowLeft", "ArrowRight", "Home", "End", "PageUp", "PageDown", "Space",
      "Control", "Shift", "Alt", "Meta" }

\* MODIFIER_FLAGS (lines 614-619): the names that have a bit
MODIFIER_FLAGS == { "Alt", "Control", "Meta", "Shift" }

\* key.replace(/ControlOrMeta/g, isMac ? "Meta" : "Control") (lines 626-628)
resolvedKey(key, mac) ==
    [ i \in 1 .. Len(key) |->
        IF key[i] = "ControlOrMeta" THEN (IF mac THEN "Meta" ELSE "Control")
        ELSE key[i] ]

\* parts.slice(0, -1) and parts[parts.length - 1] (lines 631-633)
modifiers(parts) == SubSeq(parts, 1, Len(parts) - 1)
mainKey(parts) == parts[Len(parts)]

\* modifierFlags after the loop of lines 636-639
modifierFlags(mods) == { mods[i] : i \in 1 .. Len(mods) } \cap MODIFIER_FLAGS

KeyEvent(type, k, flags) == [ type |-> type, key |-> k, modifiers |-> flags ]

\* the loop of lines 649-661 from index i on: a part without a key
\* definition sends nothing
RECURSIVE PressFrom(_, _, _)
PressFrom(mods, i, flags) ==
    IF i > Len(mods) THEN << >>
    ELSE (IF mods[i] \in KeyNames THEN << KeyEvent("keyDown", mods[i], flags) >>
          ELSE << >>)
         \o PressFrom(mods, i + 1, flags)

\* the loop of lines 684-698 from index i down: the bit of the modifier is
\* cleared before its keyUp is sent
RECURSIVE ReleaseFrom(_, _, _)
ReleaseFrom(mods, i, flags) ==
    IF i < 1 THEN << >>
    ELSE IF mods[i] \in KeyNames
      THEN << KeyEvent("keyUp", mods[i], flags \ { mods[i] }) >>
           \o ReleaseFrom(mods, i - 1, flags \ { mods[i] })
    ELSE ReleaseFrom(mods, i - 1, flags)

Reverse(seq) == [ i \in 1 .. Len(seq) |-> seq[Len(seq) + 1 - i] ]

\* releasing the modifiers in the order they were pressed
ReleaseInPressOrder(mods, flags) == ReleaseFrom(Reverse(mods), Len(mods), flags)

\* lines 684-698
ReleaseModifiers(mods, flags) == ReleaseFrom(mods, Len(mods), flags)

\* the commands cdpPress sends when none of them fails (lines 649-698)
cdpPressCommands(key, mac) ==
    LET parts == resolvedKey(key, mac)
        mods  == modifiers(parts)
        flags == modifierFlags(mods)
    IN PressFrom(mods, 1, flags)
       \o << KeyEvent("keyDown", mainKey(parts), flags),
             KeyEvent("keyUp", mainKey(parts), flags) >>
       \o ReleaseModifiers(mods, flags)

\* what the reasoning model writes before the main key, and the main keys
ModifierParts == { "Control", "Shift", "Alt", "Meta", "ControlOrMeta", "Ctrl" }
MainKeys == { "a", "Enter" }

KeyCombos ==
    UNION { { Append(m, k) : m \in [ 1 .. n -> ModifierParts ], k \in MainKeys } :
            n \in 0 .. MaxModifiers }

\* cdpPress is called and parked at ensureDebugger (line 623)
InitPress ==
    /\ protocol = "press"
    /\ OrchestratorIdle
    /\ SideIdleBut("press")
    /\ keyCombo \in KeyCombos
    /\ isMac \in BOOLEAN
    /\ pressPc = "attach"
    /\ keyEvents = << >>

\* ensureDebugger returns, and the first command is sent, or it throws
PressAttachReturns(ok) ==
    /\ pressPc = "attach"
    /\ IF ok
         THEN /\ pressPc' = "cmd"
              /\ keyEvents' = << cdpPressCommands(keyCombo, isMac)[1] >>
         ELSE /\ pressPc' = "failed"
              /\ UNCHANGED keyEvents
    /\ UNCHANGED << restOfPress, keyCombo, isMac >>

\* a chrome.debugger.sendCommand returns, and the next command is sent or
\* cdpPress returns; or it throws, and cdpPress throws
PressCommandReturns(ok) ==
    /\ pressPc = "cmd"
    /\ LET commands == cdpPressCommands(keyCombo, isMac)
       IN IF ~ok
            THEN pressPc' = "failed" /\ UNCHANGED keyEvents
          ELSE IF Len(keyEvents) < Len(commands)
            THEN /\ keyEvents' = Append(keyEvents, commands[Len(keyEvents) + 1])
                 /\ UNCHANGED pressPc
          ELSE pressPc' = "done" /\ UNCHANGED keyEvents
    /\ UNCHANGED << restOfPress, keyCombo, isMac >>

NextPress ==
    \/ \E ok \in BOOLEAN : PressAttachReturns(ok)
    \/ \E ok \in BOOLEAN : PressCommandReturns(ok)

SpecPress == InitPress /\ [][NextPress]_vars

---------------------------------------------------------------------------
(* A press from the tool call down to the driver: executeToolCall called   *)
(* with any tool call, and executeAction called with a press (slot "a").   *)
---------------------------------------------------------------------------

PressOps == { DriverOp("press", << "Enter" >>), DriverOp("press", << "Tab" >>) }

NextPressKey ==
    \/ NextExecutor
    \/ \E d \in PressOps : StartOp("a", 1, d)
    \/ HideOver("a")
    \/ \E ok \in BOOLEAN : AttachReturns("a", ok)
    \/ \E ok \in BOOLEAN : CommandReturns("a", ok)
    \/ ShowReturns("a")

SpecPressKey == InitExecutor /\ [][NextPressKey]_vars

---------------------------------------------------------------------------
(* The JSON-decision loop with decisions that chain more than MaxCalls     *)
(* actions (type, navigate).                                                *)
---------------------------------------------------------------------------

ChainTurns ==
    { [ i \in 1 .. n |-> "other" ] : n \in (MaxCalls + 1) .. MaxChain }

ChainActions ==
    { Call("action", "type", << "text" >>), Call("action", "navigate", WebUrl) }

InitChain == Init /\ protocol = "json" /\ tabUrl[1] = WebUrl

NextChain ==
    \/ \E goal \in Goals : RunJson(goal)
    \/ JsonTabsGetOk
    \/ \E p \in Perceptions : JsonPerceived(p)
    \/ \E actions \in ChainTurns : JsonDecided(actions)
    \/ \E ok \in BOOLEAN : JsonViewport(ok)
    \/ JsonDispatchDone
    \/ \E a \in ChainActions : JsonActStarts(a)
    \/ JsonActReturns
    \/ JsonActFails
    \/ JsonActionDelayOver
    \/ JsonDelayOver
    \/ StopJson

SpecChain == InitChain /\ [][NextChain]_vars

---------------------------------------------------------------------------
(* waitForPageReady (src/src/cdp.ts lines 323-350), called on tab 1.  Time *)
(* is counted in units of 100 ms; an awaited call takes up to MaxDelay.    *)
---------------------------------------------------------------------------

\* the pause between two polls (line 348), in units of 100 ms
POLL_PAUSE == 1

\* what document.readyState evaluates to, "none" for a result without value
ReadyStates == { "loading", "interactive", "complete", "none" }

\* the attach failure rethrown instead of caught
AttachRethrown == "threw"

\* lines 326-329: the failure of ensureDebugger is caught, the function
\* returns
AttachCaught == "returned"

\* the loop condition of line 333
WithinTimeout == elapsed' < timeout

\* line 333 and on: another Runtime.evaluate is sent, or the loop is over
\* and the function returns
PollOrReturn ==
    IF WithinTimeout
      THEN readyPc' = "eval" /\ polls' = polls + 1
      ELSE readyPc' = "returned" /\ UNCHANGED polls

\* waitForPageReady is called and parked at ensureDebugger (line 325)
InitReady ==
    /\ protocol = "ready"
    /\ OrchestratorIdle
    /\ SideIdleBut("ready")
    /\ readyPc = "attach"
    /\ timeout \in 0 .. MaxTimeout
    /\ elapsed = 0
    /\ polls = 0

\* ensureDebugger returns or throws (lines 324-331)
ReadyAttachReturns(ok) ==
    /\ readyPc = "attach"
    /\ IF ok
         THEN /\ attachedTabs' = attachedTabs \cup { 1 }
              /\ elapsed' = 0
              /\ PollOrReturn
         ELSE /\ readyPc' = AttachCaught
              /\ UNCHANGED << attachedTabs, elapsed, polls >>
    /\ UNCHANGED << restOfReady, timeout >>

\* Runtime.evaluate returns after d units with the ready-state, or throws
\* (lines 334-345)
ReadyEvaluateReturns(ok, value, d) ==
    /\ readyPc = "eval"
    /\ value \in ReadyStates
    /\ d \in 0 .. MaxDelay
    /\ elapsed' = elapsed + d
    /\ readyPc' = IF ~ok THEN "returned"
                  ELSE IF value = "complete" THEN "settle"
                  ELSE "pause"
    /\ UNCHANGED << restOfReady, attachedTabs, timeout, polls >>

\* the 200 ms after "complete" are over (lines 340-341)
ReadySettleOver ==
    /\ readyPc = "settle"
    /\ readyPc' = "returned"
    /\ UNCHANGED << restOfReady, attachedTabs, timeout, elapsed, polls >>

\* the pause of line 348 is over, d units late
ReadyPauseOver(d) ==
    /\ readyPc = "pause"
    /\ d \in 0 .. MaxDelay
    /\ elapsed' = elapsed + POLL_PAUSE + d
    /\ PollOrReturn
    /\ UNCHANGED << restOfReady, attachedTabs, timeout >>

NextReady ==
    \/ \E ok \in BOOLEAN : ReadyAttachReturns(ok)
    \/ \E ok \in BOOLEAN, value \in ReadyStates, d \in 0 .. MaxDelay :
           ReadyEvaluateReturns(ok, value, d)
    \/ ReadySettleOver
    \/ \E d \in 0 .. MaxDelay : ReadyPauseOver(d)

\* every awaited call and timer of waitForPageReady returns or fires
SpecReady == InitReady /\ [][NextReady]_vars /\ WF_vars(NextReady)

---------------------------------------------------------------------------
(* Coordinate conversion: ModelClient.findElement (src/unnamed/part_002    *)
(* lines 88-98) and createBoxElement (src/unnamed/part_008 lines 23-48).   *)
(* Pixel values are kept in thousandths, so that n / 1000 * D is exact.    *)
---------------------------------------------------------------------------

\* the scale of the normalized coordinates (part_002 line 95)
NORM_SCALE == 1000

\* the normalized coordinates, and the viewport dimensions: every small one
\* and three common window sizes
Norms == 0 .. NORM_SCALE
Viewports == (1 .. MaxDim) \cup { 1000, 1280, 1920 }

\* num / den cut to an integer
MathTrunc(num, den) == { num \div den }

\* Math.round of the double nearest to num / den: the nearest integer; where
\* num / den lies halfway between two integers, Math.round goes up, but the
\* double product may lie just under the half (0.145 * 100 is
\* 14.499999999999998), so both neighbours are possible
MathRound(num, den) ==
    IF (2 * num) % den = 0 /\ ((2 * num) \div den) % 2 = 1
      THEN { num \div den, num \div den + 1 }
      ELSE { (2 * num + den) \div (2 * den) }

\* part_002 lines 95-96: Math.round((normX / 1000) * viewportWidth), in
\* thousandths of a pixel
findElementPixels(n, D) == { NORM_SCALE * p : p \in MathRound(n * D, NORM_SCALE) }

\* part_008 lines 28-31: (box.x1 / 1000) * vw, in thousandths of a pixel
createBoxElementPixel(n, D) == n * D

\* a coordinate and a viewport dimension, before locate or draw
InitCoord ==
    /\ protocol = "coord"
    /\ OrchestratorIdle
    /\ SideIdleBut("coord")
    /\ normX \in Norms
    /\ viewportWidth \in Viewports
    /\ xMilli = 0
    /\ convPc = "query"

\* findElement converts the coordinate of the vision answer
FindElementConverts(x) ==
    /\ convPc = "query"
    /\ x \in findElementPixels(normX, viewportWidth)
    /\ xMilli' = x
    /\ convPc' = "point"
    /\ UNCHANGED << restOfCoord, normX, viewportWidth >>

\* createBoxElement converts a coordinate of a box
CreateBoxElementConverts ==
    /\ convPc = "query"
    /\ xMilli' = createBoxElementPixel(normX, viewportWidth)
    /\ convPc' = "box"
    /\ UNCHANGED << restOfCoord, normX, viewportWidth >>

NextCoord ==
    \/ \E x \in findElementPixels(normX, viewportWidth) : FindElementConverts(x)
    \/ CreateBoxElementConverts

SpecCoord == InitCoord /\ [][NextCoord]_vars

---------------------------------------------------------------------------
(* The chat history of tab 1 (src/src/chat-history.ts).  Its callers       *)
(* (broadcastStatus, the RUN handler) do not await addToChatHistory, so    *)
(* calls overlap.                                                          *)
---------------------------------------------------------------------------

\* chat-history.ts line 8
WELCOME_MESSAGE == [ type |-> "assistant", content |-> 0 ]

\* the message of the n-th call of addToChatHistory
ChatMessage(n) == [ type |-> "user", content |-> n ]

\* line 17: what getChatHistory resolves to
getChatHistory == IF Len(chatStore) > 0 THEN chatStore ELSE << WELCOME_MESSAGE >>

InitChat ==
    /\ protocol = "chat"
    /\ OrchestratorIdle
    /\ SideIdleBut("chat")
    /\ chatStore = << >>
    /\ appendCalls = << >>
    /\ appended = << >>

\* addToChatHistory is called and parked at getChatHistory (lines 20-22)
AddToChatHistory ==
    /\ Len(appendCalls) < MaxAppends
    /\ appendCalls' = Append(appendCalls, [ pc |-> "get", history |-> << >> ])
    /\ appended' = Append(appended, ChatMessage(Len(appendCalls) + 1))
    /\ UNCHANGED << restOfChat, chatStore >>

\* storage.get resolves for call n; the message is pushed on the copy and
\* storage.set is called (lines 16-17, 22-24)
ChatGetReturns(n) ==
    /\ n \in DOMAIN appendCalls
    /\ appendCalls[n].pc = "get"
    /\ appendCalls' = [ appendCalls EXCEPT
           ![n] = [ pc |-> "set", history |-> Append(getChatHistory, ChatMessage(n)) ] ]
    /\ UNCHANGED << restOfChat, chatStore, appended >>

\* storage.set of call n is carried out (line 24)
ChatSetReturns(n) ==
    /\ n \in DOMAIN appendCalls
    /\ appendCalls[n].pc = "set"
    /\ chatStore' = appendCalls[n].history
    /\ appendCalls' = [ appendCalls EXCEPT ![n].pc = "done" ]
    /\ UNCHANGED << restOfChat, appended >>

\* clearChatHistory: the entry is removed (lines 27-29)
ClearChatHistory ==
    /\ chatStore # << >>
    /\ chatStore' = << >>
    /\ appended' = << >>
    /\ UNCHANGED << restOfChat, appendCalls >>

NextChat ==
    \/ AddToChatHistory
    \/ \E n \in 1 .. MaxAppends : ChatGetReturns(n)
    \/ \E n \in 1 .. MaxAppends : ChatSetReturns(n)
    \/ ClearChatHistory

SpecChat == InitChat /\ [][NextChat]_vars

---------------------------------------------------------------------------
(* A RUN for the session of a run in progress.  The RUN handler            *)
(* (background.ts lines 687-699) calls runAutomation whatever the session  *)
(* is doing; the second runAutomation has its own messages, toolState and  *)
(* iteration and shares the TabState.  It is followed up to the answer to  *)
(* its first reasoning request, taken to be one without tool calls.        *)
---------------------------------------------------------------------------

\* every variable the second runAutomation leaves alone
restOfRerun == << pressVars, readyVars, coordVars, chatVars, pageState, askVars,
                 visionVars,
                 cdpVars, jsonVars, protocol, tabs, nextTab, tabUrl, tabStates, pc,
                 state, iteration, retryCount, toolState, turn, callIdx, cur,
                 executed, stops, staleSince >>

\* onMessage RUN (lines 687-699) from a tab of the session, while its
\* runAutomation is parked at an await; the new runAutomation runs up to its
\* first await (lines 519-554)
RunAgain(tabId, goal) ==
    /\ protocol = "tool"
    /\ pc \notin { "idle", "done", "dispatch" }
    /\ loop2 = "none"
    /\ tabId \in DOMAIN tabStates
    /\ tabStates[tabId] = state
    /\ sessions' = [sessions EXCEPT ![state].isRunning = TRUE,
                                    ![state].goal = goal,
                                    ![state].actionHistory = << >>]
    /\ loop2' = "tabsGet"
    /\ UNCHANGED << restOfRerun, statusLog >>

\* chrome.tabs.get returns to the second runAutomation (line 554): its
\* reasoning request of line 564 is sent
Loop2TabsGetOk ==
    /\ AtAwait
    /\ loop2 = "tabsGet"
    /\ sessions[state].tabId \in tabs
    /\ loop2' = "chat"
    /\ UNCHANGED << restOfRerun, sessions, statusLog >>

\* the reasoning request of the second runAutomation returns a message
\* without tool calls (lines 577-587, 669-679)
Loop2ChatTextOnly(content) ==
    /\ AtAwait
    /\ loop2 = "chat"
    /\ statusLog' = IF content # NULL
                      THEN Append(statusLog, Status(state, "completed", content))
                      ELSE statusLog
    /\ sessions' = [sessions EXCEPT ![state].isRunning = FALSE, ![state].goal = NULL]
    /\ loop2' = "done"
    /\ UNCHANGED restOfRerun

NextRerun ==
    \/ NextTool
    \/ \E t \in tabs, g \in Goals : RunAgain(t, g)
    \/ Loop2TabsGetOk
    \/ \E content \in Results \cup { NULL } : Loop2ChatTextOnly(content)

SpecRerun == InitTool /\ [][NextRerun]_vars

---------------------------------------------------------------------------
(* The tool-calling loop with tabs being opened while it runs: the         *)
(* toolState of runAutomation (background.ts lines 537-542) against the    *)
(* onCreated listener (lines 473-485).                                     *)
---------------------------------------------------------------------------

NextHandOff ==
    \/ NextTool
    \/ \E o \in tabs \cup { NoTab }, u \in { WebUrl, InternalUrl } : TabCreated(o, u)

SpecHandOff == InitTool /\ [][NextHandOff]_vars

---------------------------------------------------------------------------
(* A run whose tab opens a tab that opens a tab: the session is handed on  *)
(* more than once.  The reasoning model answers with one navigate per turn *)
(* or with text, or the request fails.                                     *)
---------------------------------------------------------------------------

\* broadcastStatus line 510: the chat-history key a status of session
\* object s is stored under
ChatKey(s) == IF s.originTabId # NoTab THEN s.originTabId ELSE s.tabId

NextOrigin ==
    \/ \E g \in Goals : Run(1, g)
    \/ TabsGetOk
    \/ \E e \in ChatErrors : ChatFails(e)
    \/ \E content \in Results \cup { NULL } : ChatTextOnly(content)
    \/ ChatToolCalls(<< "other" >>)
    \/ DispatchDone
    \/ DispatchAwaited(Call("execute_action", "navigate", WebUrl))
    \/ \E o \in { "ok", "fail" } : ToolReturns(o)
    \/ IterationDelayOver
    \/ RetryDelayOver
    \/ \E t \in tabs : Stop(t)
    \/ \E o \in tabs : TabCreatedUpTo(o, WebUrl, MaxChainTabs)

SpecOrigin == InitTool /\ [][NextOrigin]_vars

---------------------------------------------------------------------------
(* Claims                                                                  *)

\* a vision query (client.analyzeScreenshot or client.findElement) is in flight
VisionQueryInFlight ==
    pc = "tool" /\ cur.call.name \in { "analyze_page", "find_element" }

\* the last executeToolCall has returned, and was call-shaped like c says
Returned == pc = "ready" /\ cur.result # << >>

\* C1: after an execute_action click, press Enter, scroll or navigate that
\* passed argument validation has returned, whether its driver call
\* completed or threw, the cache holds no screenshot and no viewport.
C1_CacheEmptyAfterAction ==
    (protocol = "executor" /\ Returned /\ Invalidating(cur.call)) =>
        (toolState.currentScreenshot = NoTab /\ toolState.viewport = NoTab)

\* C2: no vision query is in flight while the cache holds no screenshot
\* (find_element: no screenshot or no viewport), nor between a
\* cache-invalidating action and the next capture_screenshot that succeeded;
\* a refused analyze_page/find_element returned an error.
C2_NoQueryOnEmptyOrStaleCache ==
    /\ VisionQueryInFlight =>
          /\ toolState.currentScreenshot # NoTab
          /\ cur.call.name = "find_element" => toolState.viewport # NoTab
          /\ ~staleSince
    /\ (Returned /\ cur.call.name \in { "analyze_page", "find_element" }
            /\ toolState.currentScreenshot = NoTab) => startsWithError(cur.result)

\* The part of C2 that the code keeps: a vision query is in flight only with
\* a screenshot (and, for find_element, a viewport) in the cache.
C2_QueryHasScreenshot ==
    VisionQueryInFlight =>
        /\ toolState.currentScreenshot # NoTab
        /\ cur.call.name = "find_element" => toolState.viewport # NoTab

\* ... and a refused analyze_page/find_element leaves the cache as it was.
C2_RefusalKeepsCache ==
    [][ (pc = "ready" /\ pc' = "ready" /\ cur' # cur
            /\ cur'.call.name \in { "analyze_page", "find_element" })
        => (toolState' = toolState /\ startsWithError(cur'.result)) ]_vars

---------------------------------------------------------------------------
(* The running flag, goal and history of the run, in either generation     *)

Running ==
    IF protocol = "json" THEN isRunning
    ELSE state # 0 /\ sessions[state].isRunning

Goal == IF protocol = "json" THEN currentGoal ELSE sessions[state].goal

History ==
    IF protocol = "json" THEN actionHistory
    ELSE IF state # 0 THEN sessions[state].actionHistory ELSE << >>

\* a reasoning request (chatWithTools / getNextAction) is in flight
RequestInFlight == pc \in { "chat", "decide" }

\* a tool call or an action is in flight
CallInFlight == pc \in { "tool", "find", "act" }

HasStatus(st) == \E i \in 1..Len(statusLog) : statusLog[i].status = st

Count(st) == Cardinality({ i \in 1..Len(statusLog) : statusLog[i].status = st })

HasKind(t, kinds) == \E i \in 1..Len(t) : t[i] \in kinds

\* C3: once a STOP has cleared the running flag of a run, no step of the
\* loop sends a reasoning request and none starts a tool call or an action;
\* only the call that was in flight goes on.
C3_NothingStartsAfterStop ==
    [][ (stops > 0 /\ ~Running /\ pc \notin { "idle", "done" }) =>
            /\ RequestInFlight' => RequestInFlight
            /\ CallInFlight' => (CallInFlight /\ cur' = cur) ]_vars

\* C4: a run that has returned after MAX_ITERATIONS iterations without a
\* terminal action has broadcast stopped with the fixed message last, has
\* broadcast no error, and its running flag is false.
C4_CapEndsStopped ==
    (pc = "done" /\ iteration = MAX_ITERATIONS
        /\ ~HasStatus("completed") /\ ~HasStatus("waiting_for_user")) =>
        /\ statusLog # << >>
        /\ statusLog[Len(statusLog)].status = "stopped"
        /\ statusLog[Len(statusLog)].message = TakingLonger
        /\ ~HasStatus("error")
        /\ ~Running

\* C5 as stated: when the turn in which the model issued complete/done
\* (ask_user) is over, exactly one completed (waiting_for_user) status has
\* been broadcast.
C5_IssuedTerminalExposedOnce ==
    pc = "iterDelay" =>
        /\ HasKind(turn, { "complete", "done" }) => Count("completed") = 1
        /\ HasKind(turn, { "ask_user" }) => Count("waiting_for_user") = 1

\* C5: a run broadcasts completed at most once and waiting_for_user at most
\* once, and the step in which the loop processes a terminal call (reached
\* while the run is running, its arguments parsed) broadcasts exactly one
\* status: completed with the result for complete/done, waiting_for_user
\* with the prompt for ask_user.
C5_ProcessedTerminalExposedOnce ==
    [][ /\ Count("completed")' <= 1
        /\ Count("waiting_for_user")' <= 1
        /\ (pc = "dispatch" /\ pc' = "iterDelay" /\ Running /\ callIdx <= Len(turn)) =>
              /\ turn[callIdx] \in { "complete", "done" } =>
                    /\ Len(statusLog') = Len(statusLog) + 1
                    /\ SubSeq(statusLog', 1, Len(statusLog)) = statusLog
                    /\ statusLog'[Len(statusLog')].status = "completed"
                    /\ statusLog'[Len(statusLog')].message \in Results
              /\ turn[callIdx] = "ask_user" =>
                    /\ Len(statusLog') = Len(statusLog) + 1
                    /\ SubSeq(statusLog', 1, Len(statusLog)) = statusLog
                    /\ statusLog'[Len(statusLog')].status = "waiting_for_user"
                    /\ statusLog'[Len(statusLog')].message \in Prompts ]_vars

\* a complete/done call has been processed and broadcast once
C5_Witness ==
    /\ pc = "iterDelay"
    /\ callIdx \in 1..Len(turn)
    /\ turn[callIdx] \in { "complete", "done" }
    /\ Count("completed") = 1
    /\ ~Running

\* a terminal call (or a text-only answer) has ended the run's work
TerminalProcessed == HasStatus("completed") \/ HasStatus("waiting_for_user")

\* C6: the calls of a turn are taken up in the order given, none skipped;
\* once a terminal call is processed no further call of the turn is taken
\* up, nothing is in flight and no reasoning request is sent.
C6_InOrderUntilTerminal ==
    [][ /\ \A i \in 1..Len(executed') : executed'[i] = i
        /\ TerminalProcessed =>
              /\ executed' = executed \/ executed' = << >>
              /\ ~RequestInFlight'
              /\ ~CallInFlight' ]_vars

\* a terminal call was processed with a later call of the turn left over
C6_Witness ==
    /\ pc = "iterDelay"
    /\ TerminalProcessed
    /\ callIdx \in 1..(Len(turn) - 1)
    /\ turn[callIdx] \in { "complete", "done", "ask_user" }
    /\ turn[callIdx + 1] = "other"

\* every error the catch of an iteration can receive
AllErrors ==
    ChatErrors \cup FindErrors
        \cup { OtherErr("syntax"), OtherErr("click"), OtherErr("driver") }

\* the step is an iteration failing with error e
FailsWith(e) ==
    \/ ChatFails(e)
    \/ e = OtherErr("syntax") /\ DispatchMalformed
    \/ JsonDecideFails(e)
    \/ JsonFindFails(e)
    \/ e = OtherErr("click") /\ \E a \in JsonActions : JsonClickThrows(a)
    \/ e = OtherErr("driver") /\ JsonActFails

C7_WitnessGaveUp ==
    /\ pc = "done"
    /\ retryCount = MAX_RETRIES
    /\ \E i \in 1..Len(statusLog) :
           statusLog[i].status = "error" /\ statusLog[i].message = "api500"

\* C8 (tool-calling loop): a reasoning request is sent only once per
\* iteration, there are at most MAX_ITERATIONS iterations, and a run that
\* has started returns, with the session's running flag false and its goal
\* null.
C8_RunTerminates ==
    /\ [][ /\ (pc' = "chat" /\ pc # "chat") => pc = "tabsGet"
           /\ (pc' = "tabsGet" /\ pc # "tabsGet") =>
                  (iteration' = iteration + 1 /\ iteration' <= MAX_ITERATIONS)
           /\ pc' # "tabsGet" => iteration' = iteration
           /\ pc' = "done" => (~Running' /\ Goal' = NULL) ]_vars
    /\ (pc = "tabsGet") ~> (pc = "done")

\* a run returned after as many reasoning requests as the cap allows
C8_Witness ==
    /\ protocol = "tool"
    /\ pc = "done"
    /\ iteration = MAX_ITERATIONS
    /\ ~Running
    /\ Goal = NULL

\* the URL begins with javascript: or data:
BeginsUnsafe(url) == Len(url) >= 1 /\ url[1] \in { "javascript:", "data:" }

\* C10: no tab ever gets a URL that begins with javascript: or data:.  In
\* the tool-calling loop a navigate to such a URL returns without the tab's
\* URL changing and the loop goes on to the next call, no retry counted; in
\* the JSON-decision loop no tabs.update is ever in flight for such a URL,
\* and the step that records the navigate leaves the tab's URL alone and
\* starts no retry.
C10_UnsafeNavigateRefused ==
    [][ /\ \A t \in tabs' : ~BeginsUnsafe(tabUrl'[t])
        /\ (pc = "tool" /\ pc' # "tool" /\ cur.call.action = "navigate"
                /\ BeginsUnsafe(cur.call.arg)) =>
              /\ tabUrl' = tabUrl
              /\ pc' = "dispatch"
              /\ retryCount' = retryCount
        /\ pc' = "act" =>
              ~(cur'.call.action = "navigate" /\ BeginsUnsafe(cur'.call.arg))
        /\ (Len(History') = Len(History) + 1
                /\ History'[Len(History')].action = "navigate"
                /\ BeginsUnsafe(History'[Len(History')].arg)) =>
              /\ tabUrl' = tabUrl
              /\ pc' \in { "dispatch", "actionDelay", "iterDelay" }
              /\ retryCount' \in { retryCount, 0 } ]_vars

\* the tool-calling loop has refused a navigate to an unsafe URL
C10_Witness ==
    /\ protocol = "tool"
    /\ \E i \in 1..Len(History) :
           /\ History[i].action = "navigate"
           /\ BeginsUnsafe(History[i].arg)
           /\ ~History[i].success
    /\ \A t \in tabs : ~BeginsUnsafe(tabUrl[t])

\* the JSON-decision loop has skipped a navigate to an unsafe URL
C10_WitnessJson ==
    /\ protocol = "json"
    /\ \E i \in 1..Len(History) :
           History[i].action = "navigate" /\ BeginsUnsafe(History[i].arg)
    /\ \A t \in tabs : ~BeginsUnsafe(tabUrl[t])

\* the step is the browser opening tab nextTab with opener o
Opens(o) == \E u \in { WebUrl, InternalUrl } : TabCreated(o, u)

C9_WitnessNoHandOff ==
    /\ 2 \in tabs
    /\ 1 \in DOMAIN tabStates
    /\ ~sessions[tabStates[1]].isRunning
    /\ sessions[tabStates[1]].tabId = 1

---------------------------------------------------------------------------
(* The debugger table                                                      *)

\* operation o issues chrome.debugger.attach in this step
IssuesAttach(o) == ops[o].pc # "attach" /\ ops'[o].pc = "attach"

\* another operation than o has an attach for the tab in flight
AttachInFlight(o, tabId) ==
    \E q \in Slots \ { o } : ops[q].pc = "attach" /\ ops[q].tabId = tabId

ClosedTabs == (1 .. (nextTab - 1)) \ tabs

\* the tab of the run's session is closed
RunTabClosed == state # 0 /\ sessions[state].tabId \in ClosedTabs

\* C12: when a tab closes, its session-table entry and its debugger-table
\* entry are removed and stay absent; a run that was in progress on it
\* sends no further reasoning-model request and ends with the running flag
\* false.
C12_ClosedTabForgotten ==
    /\ [](\A t \in ClosedTabs : t \notin DOMAIN tabStates /\ t \notin attachedTabs)
    /\ [][ RunTabClosed => ~(pc # "chat" /\ pc' = "chat") ]_vars
    /\ RunTabClosed ~> (pc = "done" /\ ~sessions[state].isRunning)

\* the tab closed under a run, whose next chrome.tabs.get rejected, and the
\* run has ended
C12_Witness ==
    /\ RunTabClosed
    /\ pc = "done"
    /\ ~sessions[state].isRunning
    /\ HasStatus("error")

---------------------------------------------------------------------------
(* The overlay bracket                                                     *)

---------------------------------------------------------------------------
(* Page actions asked for by the reasoning model                           *)

\* an execute_action without the one argument its action requires, or with
\* an action that is none of the six
MissingField(c) ==
    /\ c.name = "execute_action"
    /\ \/ c.action \in { "click", "type", "press", "scroll", "navigate" } /\ c.arg = NoArg
       \/ c.action \notin { "click", "type", "press", "scroll", "wait", "navigate" }

\* C14: an execute_action whose required field is missing, or whose action
\* is unknown, returns a result beginning with "Error" whatever the driver
\* would do, is not handed to the driver or to chrome.tabs.update, and
\* leaves the perception cache, the tab and the debugger untouched; the
\* loop records it as failed, goes on to the next tool call and the
\* session keeps running.
C14_MissingFieldRefused ==
    /\ []((pc = "tool" /\ MissingField(cur.call)) =>
            /\ ~CallsDriver(cur.call, tabUrl[cur.tabId])
            /\ \A o \in { "ok", "partial", "fail" } :
                 LET r == executeToolCall(cur.call, toolState, cur.tabId,
                                          tabUrl[cur.tabId], o)
                 IN /\ startsWithError(r.result)
                    /\ r.ts = toolState
                    /\ r.update = NoArg)
    /\ [][ (pc = "tool" /\ MissingField(cur.call) /\ pc' # "tool") =>
             /\ toolState' = toolState
             /\ tabUrl' = tabUrl
             /\ cdpVars' = cdpVars
             /\ pc' = "dispatch"
             /\ callIdx' = callIdx + 1
             /\ Running /\ Running'
             /\ History' = Append(History, [ action |-> cur.call.action,
                                             arg |-> cur.call.arg,
                                             success |-> FALSE ]) ]_vars

\* a click without coordinates was refused with a screenshot in the cache,
\* and the loop is at the next tool call of the turn
C14_Witness ==
    /\ pc = "dispatch"
    /\ callIdx = 2
    /\ Running
    /\ History = << [ action |-> "click", arg |-> NoArg, success |-> FALSE ] >>
    /\ toolState.currentScreenshot # NoTab

\* C15: in a run that starts on an internal or blank URL, no click or type
\* is handed to the driver before a screenshot has been captured in that
\* run.  (The tab leaves the internal URL only by a navigate, and no
\* screenshot is captured on an internal URL: a call in flight on an
\* internal URL with an empty cache is a call before the first screenshot.)
C15_NoClickOrTypeBeforeScreenshot ==
    ~( /\ pc = "tool"
       /\ cur.call.name = "execute_action"
       /\ cur.call.action \in { "click", "type" }
       /\ CallsDriver(cur.call, tabUrl[cur.tabId])
       /\ isInternalUrl(tabUrl[cur.tabId])
       /\ toolState.currentScreenshot = NoTab
       /\ iteration = 1 )

---------------------------------------------------------------------------
(* Perception on internal pages                                            *)

\* the URLs the claim calls internal: empty, chrome://, chrome-extension://,
\* about:, devtools://
InternalPage(url) ==
    \/ url = << >>
    \/ url[1] \in { "chrome://", "chrome-extension://", "about:", "devtools://" }

\* the "cannot ... on this page, navigate first" results
Sentinels ==
    { "Cannot capture screenshot on this page",
      "Cannot get accessibility tree on this page" }

\* capture_screenshot or get_a11y_tree is in flight on an internal page
PerceivingInternal ==
    /\ pc = "tool"
    /\ cur.call.name \in { "capture_screenshot", "get_a11y_tree" }
    /\ InternalPage(tabUrl[cur.tabId])

\* C16: capture_screenshot and get_a11y_tree on a tab whose URL is internal
\* return the "cannot ... navigate first" sentinel whatever the driver would
\* do, are not handed to the driver, and leave the perception cache
\* unchanged.
C16_InternalPageRefused ==
    /\ [](PerceivingInternal =>
            /\ ~CallsDriver(cur.call, tabUrl[cur.tabId])
            /\ \A o \in { "ok", "partial", "fail" } :
                 LET r == executeToolCall(cur.call, toolState, cur.tabId,
                                          tabUrl[cur.tabId], o)
                 IN /\ r.result[1] \in Sentinels
                    /\ r.ts = toolState
                    /\ r.update = NoArg)
    /\ [][ (PerceivingInternal /\ pc' # "tool") =>
             /\ cur'.result[1] \in Sentinels
             /\ toolState' = toolState
             /\ tabUrl' = tabUrl
             /\ cdpVars' = cdpVars ]_vars

\* capture_screenshot was refused on chrome://newtab, reached by a
\* navigate, with the element found on the page before still in the cache
C16_Witness ==
    /\ pc = "ready"
    /\ cur.call.name = "capture_screenshot"
    /\ cur.result[1] \in Sentinels
    /\ tabUrl[1] = InternalUrl
    /\ toolState.lastFoundElement # NULL

---------------------------------------------------------------------------
(* The action history under failures of the JSON-decision loop             *)

\* the catch retries after error e: an ApiError with status >= 500, below
\* the retry cap
Retried(e) == e.isApi /\ e.status >= 500 /\ retryCount + 1 < MAX_RETRIES

\* C17: in the JSON-decision loop, when an iteration throws a non-retriable
\* error, or the retry cap is reached, the action history is left as it
\* is: no entry added, removed or changed.
C17_GiveUpKeepsHistory ==
    [][ \A e \in AllErrors :
          (protocol = "json" /\ FailsWith(e) /\ ~Retried(e)) =>
              actionHistory' = actionHistory ]_vars

\* the loop gave up on an error with an action in the history, which still
\* counts as succeeded
C17_Witness ==
    /\ protocol = "json"
    /\ pc = "done"
    /\ HasStatus("error")
    /\ Len(actionHistory) > 0
    /\ actionHistory[Len(actionHistory)].success

---------------------------------------------------------------------------
(* Boxes of the vision model                                               *)

\* C19: for every response text and every way of cutting it into deltas,
\* the boxes analyzeScreenshot has emitted when the stream ends are the
\* boxes of the whole text parsed in one go: same count, order,
\* coordinates and labels.
C19_StreamedEqualsOneShot ==
    pc = "done" => allBoxes = parseBoxes(Flatten(response))

\* the tags among the fragments, and what they carry
IsBox(f)   == f[1] = "PB"
IsOpen(f)  == f[1] = "CO" /\ Len(f) = 5
IsClose(f) == f = << "CC" >>

\* the mention attribute of a box or collection tag; a box without the
\* attribute has none, an empty attribute is << >>
TagMention(f) ==
    IF IsBox(f) /\ f[2] # "M" THEN Undefined
    ELSE SubSeq(f, 3, Len(f) - (IF IsBox(f) THEN 3 ELSE 2))

\* a response made of whole tags only
WellFormed(fs) == \A i \in 1 .. Len(fs) : IsBox(fs[i]) \/ IsOpen(fs[i]) \/ IsClose(fs[i])

\* the labels as the claim words them: the collections open at a box are
\* those opened and not yet closed, the innermost gives the label of a box
\* that has no mention attribute
RECURSIVE OpenCollectionBoxes(_, _, _)
OpenCollectionBoxes(fs, open, boxes) ==
    IF fs = << >> THEN boxes
    ELSE LET f == Head(fs)
         IN IF IsOpen(f)
              THEN OpenCollectionBoxes(Tail(fs), Append(open, TagMention(f)), boxes)
            ELSE IF IsClose(f)
              THEN OpenCollectionBoxes(Tail(fs),
                       IF open = << >> THEN open ELSE SubSeq(open, 1, Len(open) - 1),
                       boxes)
            ELSE OpenCollectionBoxes(Tail(fs), open,
                     Append(boxes,
                            [ label |-> IF TagMention(f) # Undefined THEN TagMention(f)
                                        ELSE IF open # << >> THEN open[Len(open)]
                                        ELSE Undefined,
                              xy |-> f[Len(f)] ]))

\* the labels by the last collection tag: an opening tag sets the label, a
\* closing tag clears it whatever was open before, and a box with an empty
\* mention counts as one without
RECURSIVE LastTagBoxes(_, _, _)
LastTagBoxes(fs, last, boxes) ==
    IF fs = << >> THEN boxes
    ELSE LET f == Head(fs)
         IN IF IsOpen(f) THEN LastTagBoxes(Tail(fs), TagMention(f), boxes)
            ELSE IF IsClose(f) THEN LastTagBoxes(Tail(fs), Undefined, boxes)
            ELSE LastTagBoxes(Tail(fs), last,
                     Append(boxes,
                            [ label |-> IF TagMention(f) \notin { Undefined, << >> }
                                          THEN TagMention(f)
                                          ELSE last,
                              xy |-> f[Len(f)] ]))

---------------------------------------------------------------------------
(* Key combinations                                                        *)
---------------------------------------------------------------------------

\* the key the alias stands for on this platform
Resolved(name) ==
    IF name = "ControlOrMeta" THEN (IF isMac THEN "Meta" ELSE "Control") ELSE name

\* the keys written before the main key are all modifier keys
ModifiersOnly ==
    \A i \in 1 .. (Len(keyCombo) - 1) :
        keyCombo[i] \in { "Alt", "Control", "Meta", "Shift", "ControlOrMeta" }

\* keyDown M1..Mk, keyDown K, keyUp K, keyUp Mk..M1, as << type, key >>
ExpectedEvents ==
    LET k == Len(keyCombo) - 1
    IN [ i \in 1 .. (2 * k + 2) |->
           IF i <= k THEN << "keyDown", Resolved(keyCombo[i]) >>
           ELSE IF i = k + 1 THEN << "keyDown", keyCombo[k + 1] >>
           ELSE IF i = k + 2 THEN << "keyUp", keyCombo[k + 1] >>
           ELSE << "keyUp", Resolved(keyCombo[2 * k + 3 - i]) >> ]

SentEvents == [ i \in 1 .. Len(keyEvents) |-> << keyEvents[i].type, keyEvents[i].key >> ]

\* C21: for a combination M1+...+Mk+K of modifier keys and a main key, the
\* key events sent are at every moment the first ones of keyDown M1..Mk,
\* keyDown K, keyUp K, keyUp Mk..M1, with ControlOrMeta already replaced by
\* Meta on a Mac and Control elsewhere, and all of them once cdpPress has
\* returned.
C21_KeyEventOrder ==
    (pressPc # "idle" /\ ModifiersOnly) =>
        /\ Len(SentEvents) <= Len(ExpectedEvents)
        /\ SentEvents = SubSeq(ExpectedEvents, 1, Len(SentEvents))
        /\ pressPc = "done" => SentEvents = ExpectedEvents

\* ControlOrMeta+Shift+a on a Mac has been pressed and released
C21_Witness ==
    /\ pressPc = "done"
    /\ keyCombo = << "ControlOrMeta", "Shift", "a" >>
    /\ isMac
    /\ SentEvents = << << "keyDown", "Meta" >>, << "keyDown", "Shift" >>,
                       << "keyDown", "a" >>, << "keyUp", "a" >>,
                       << "keyUp", "Shift" >>, << "keyUp", "Meta" >> >>

\* a press of a key the driver has no definition of
PressTab == Call("execute_action", "press", << "Tab" >>)

---------------------------------------------------------------------------
(* Perception of the JSON-decision loop                                    *)
---------------------------------------------------------------------------

\* one of the awaited calls of the perception step failed
PerceptionFailed(p) ==
    ~p.ready \/ ~p.shot \/ p.analysis = "fail" \/ p.answer = "fail"

\* the step ended without a description of the page
PerceptionMissing(p) == ~p.shot \/ p.analysis = "fail"

\* C23: a failure of wait-for-ready, capture, analyze or ask leaves the
\* session out of the error state, the same iteration reaches the decision
\* step, and where the page description is missing the observation carries
\* the placeholder description.
C23_FailedPerceptionGivesPlaceholder ==
    [][\A p \in Perceptions :
         (JsonPerceived(p) /\ PerceptionFailed(p)) =>
            /\ pc' = "decide"
            /\ iteration' = iteration
            /\ statusLog' = statusLog
            /\ PerceptionMissing(p) => pageState' = CannotCapture]_vars

---------------------------------------------------------------------------
(* Chained actions of the JSON-decision loop                               *)
---------------------------------------------------------------------------

\* C24: at most 3 actions of one decision are executed in a turn, however
\* many actions the decision has.
C24_AtMostThreeActionsPerTurn ==
    protocol = "json" => Len(executed) <= 3

---------------------------------------------------------------------------
(* The perception cache as a whole                                         *)
---------------------------------------------------------------------------

\* a click, Enter press, scroll or navigate that the driver completed
PageChanged ==
    /\ Returned
    /\ cur.call.name = "execute_action"
    /\ cur.result[1] \in { "Clicked on", "Scrolled", "Navigated to" }
       \/ (cur.result[1] = "Pressed" /\ cur.call.arg = << "Enter" >>)

\* C27: after a click, an Enter press, a scroll or a navigate the cache is
\* empty as a whole: no screenshot, no viewport and no last analysis text.
C27_WholeCacheInvalidated ==
    (protocol = "executor" /\ PageChanged) =>
        /\ toolState.currentScreenshot = NoTab
        /\ toolState.viewport = NoTab
        /\ toolState.lastAnalysis = NULL

---------------------------------------------------------------------------
(* Waiting for the page                                                    *)
---------------------------------------------------------------------------

\* C28: waitForPageReady never throws and, whatever the driver does, it
\* returns; a poll is sent only while the timeout has not elapsed, and none
\* after the ready-state was "complete" or a command failed.
C28_WaitNeverFails ==
    /\ [](readyPc # "threw")
    /\ [][/\ polls' > polls => (elapsed' < timeout /\ readyPc \in { "attach", "pause" })
          /\ readyPc \in { "settle", "returned" } => polls' = polls]_vars
    /\ (readyPc = "attach") ~> (readyPc = "returned")

\* the page never got ready: the function returned after the timeout, having
\* polled more than once
C28_Witness ==
    /\ readyPc = "returned"
    /\ polls > 1
    /\ elapsed >= timeout

\* the attach failed and the function returned
C28_WitnessAttachFailed ==
    /\ readyPc = "returned"
    /\ polls = 0
    /\ timeout > 0
    /\ attachedTabs = {}

---------------------------------------------------------------------------
(* Coordinate conversion                                                   *)
---------------------------------------------------------------------------

\* the distance of two integers
Dist(a, b) == IF a >= b THEN a - b ELSE b - a

\* xMilli / viewportWidth * 1000, the pixel value mapped back, rounded to
\* the nearest integer
MappedBack == (2 * xMilli + viewportWidth) \div (2 * viewportWidth)

---------------------------------------------------------------------------
(* The chat history                                                        *)
---------------------------------------------------------------------------

\* every call of addToChatHistory has returned
AppendsDone == \A n \in DOMAIN appendCalls : appendCalls[n].pc = "done"

\* C26: once the overlapping calls of addToChatHistory have returned, every
\* message appended since the history was last cleared is in the stored
\* history.
C26_NoAppendLost ==
    AppendsDone => \A n \in 1 .. Len(appended) :
                       \E i \in 1 .. Len(chatStore) : chatStore[i] = appended[n]

---------------------------------------------------------------------------
(* Overlapping runs                                                        *)
---------------------------------------------------------------------------

\* C30: the two runAutomation of one session never both have a reasoning
\* request or a tool call in flight.
C30_OneLoopPerSession ==
    ~(pc \in { "chat", "tool" } /\ loop2 = "chat")

\* C25: the tool-calling loop goes on to its next reasoning request only
\* when every tool call of the assistant message it has just processed was
\* handed to executeToolCall and answered by a tool message; a failed
\* reasoning request leaves the calls and their answers as they were.
C25_EveryCallAnswered ==
    [][/\ (pc = "iterDelay" /\ pc' = "tabsGet") => Len(executed) = Len(turn)
       /\ (pc = "chat" /\ pc' \in { "retryDelay", "done" } /\ turn # << >>) =>
              (turn' = turn /\ executed' = executed)]_vars

---------------------------------------------------------------------------
(* Terminal statuses of a run                                              *)
---------------------------------------------------------------------------

\* the terminal statuses broadcast for session sid
TerminalsOf(sid) == { i \in 1 .. Len(statusLog) : statusLog[i].sid = sid }

\* C31: while a run is in progress, a step broadcasts a terminal status
\* (completed, waiting_for_user, error, stopped) for its session only if
\* none was broadcast for it before, and broadcasts one at most.
C31_AtMostOneTerminal ==
    [][(pc \notin { "idle", "done" } /\ Len(statusLog') > Len(statusLog)) =>
           /\ Len(statusLog') = Len(statusLog) + 1
           /\ TerminalsOf(statusLog'[Len(statusLog')].sid) = {}]_vars

\* C32: once the running flag of a started run is false, a terminal status
\* has been broadcast for its session.
C32_TerminalWhenNotRunning ==
    (protocol = "tool" /\ pc # "idle" /\ ~sessions[state].isRunning) =>
        TerminalsOf(state) # {}

---------------------------------------------------------------------------
(* The perception cache                                                    *)
---------------------------------------------------------------------------

\* C34: a viewport is in the cache only with a screenshot, and a vision
\* query is sent only from a cache that holds both, the pair of one capture;
\* the screenshot of a capture whose viewport lookup failed is no valid cache.
C34_ViewportWithItsScreenshot ==
    /\ toolState.viewport # NoTab => toolState.currentScreenshot # NoTab
    /\ VisionQueryInFlight =>
          (toolState.currentScreenshot # NoTab /\ toolState.viewport # NoTab)

\* C33: analyze_page and find_element query the vision model only with a
\* screenshot (and viewport) captured from the session's current tab.
C33_QueryOnCurrentTab ==
    [][(protocol = "tool" /\ pc = "dispatch" /\ pc' = "tool"
           /\ cur'.call.name \in { "analyze_page", "find_element" }) =>
           /\ toolState.currentScreenshot = sessions[state].tabId
           /\ toolState.viewport \in { NoTab, sessions[state].tabId }]_vars

---------------------------------------------------------------------------
(* Hand-off: the origin tab, STOP, the chat history                        *)
---------------------------------------------------------------------------

\* C35: the RUN handler stores the goal under the tab the run is started
\* on, tab 1; every status broadcast for the session of the run is stored
\* under that key, whatever hand-offs the session went through.
C35_OneChatKeyPerRun ==
    [][(pc \notin { "idle", "done" } /\ Len(statusLog') > Len(statusLog)
           /\ statusLog'[Len(statusLog')].sid = state) =>
           ChatKey(sessions'[state]) = 1]_vars

\* C36: a STOP sent from the tab a running session was handed off from
\* clears that session's running flag.
C36_StopReachesHandedOffSession ==
    [][\A O \in tabs : \A s \in 1 .. Len(sessions) :
          (Stop(O) /\ sessions[s].isRunning /\ sessions[s].originTabId = O) =>
              ~sessions'[s].isRunning]_vars

---------------------------------------------------------------------------
(* The action history of the tool-calling loop                             *)
---------------------------------------------------------------------------

\* the entry the step has appended to the history of the run
LastRecorded == sessions'[state].actionHistory[Len(sessions'[state].actionHistory)]

\* C37: the history entry of an execute_action has success = false when the
\* action was refused (missing field, unsafe URL, unknown action) and when
\* the driver call failed.
C37_SuccessOnlyWhenPerformed ==
    [][(protocol = "tool" /\ pc = "tool" /\ pc' = "dispatch"
           /\ cur.call.name = "execute_action") =>
           /\ Len(sessions'[state].actionHistory) = Len(sessions[state].actionHistory) + 1
           /\ (cur.call.action # "wait" /\ ~CallsDriver(cur.call, tabUrl[cur.tabId])) =>
                  ~LastRecorded.success
           /\ (CallsDriver(cur.call, tabUrl[cur.tabId]) /\ ToolReturns("fail")) =>
                  ~LastRecorded.success]_vars

\* C38: no status is stored in the chat history under the key of a tab that
\* has been closed.
C38_NoHistoryUnderClosedTab ==
    [][Len(statusLog') > Len(statusLog) =>
           ChatKey(sessions'[statusLog'[Len(statusLog')].sid]) \in tabs']_vars

---------------------------------------------------------------------------
(* The answer to a pending question                                        *)
---------------------------------------------------------------------------

\* C39: an answer obtained from askQuestion is held until a reasoning
\* request that carried it has returned a decision; a failed request and
\* the retry of the iteration do not drop it.
C39_AnswerKeptUntilUsed ==
    [][(protocol = "json" /\ visionAnswer /\ ~visionAnswer') =>
           (pc = "decide" /\ pc' = "viewport")]_vars

---------------------------------------------------------------------------
(* The modifier flags of the key events                                    *)
---------------------------------------------------------------------------

\* the modifier keys held down after the i-th key event sent: pressed and
\* not yet released
HeldAfter(i) ==
    { m \in MODIFIER_FLAGS :
        Cardinality({ j \in 1 .. i : keyEvents[j].key = m /\ keyEvents[j].type = "keyDown" })
          > Cardinality({ j \in 1 .. i : keyEvents[j].key = m /\ keyEvents[j].type = "keyUp" }) }

\* C40: the modifier flags of every key event sent are the modifier keys
\* held down right after it, and none on the last event of a combination
\* with modifiers.
C40_FlagsAreHeldModifiers ==
    /\ \A i \in 1 .. Len(keyEvents) : keyEvents[i].modifiers = HeldAfter(i)
    /\ (pressPc = "done" /\ Len(keyEvents) > 2) =>
           keyEvents[Len(keyEvents)].modifiers = {}

=============================================================================
